---- MODULE Spec2Model ----
(***************************************************************************)
(* The MGLRU page-frame reclamation engine of src/src/MGLRU: the access    *)
(* tracker, the generations, the MGLRU core (add / access / scan / age /   *)
(* promote) and the MemoryManager with its background reclaim thread.      *)
(***************************************************************************)
EXTENDS Integers, Sequences, FiniteSets, TLC

(***************************************************************************)
(* Bounds of the model and constants of the program.                       *)
(***************************************************************************)
\* engines are built with 1..MaxGenerations generations
MaxGenerations == 3
\* scan budgets handed to scan_and_reclaim by the engine's direct callers:
\* with MaxBudget >= 4 the refill threshold budget / 4 takes the values 0, 1, 2
MaxBudget == 4
Budgets == {1, 2, MaxBudget, 2 * MaxBudget}
\* frames of a MemoryManager
Capacity == 2
\* generations of a MemoryManager's engine
ManagerGenerations == 2
\* free_page calls beyond which the model stops following a MemoryManager
MaxFreeCalls == 1
\* how far a list's size counter may drift from its length before the model
\* stops following a MemoryManager
MaxSkew == 1
\* the budget allocate_page gives direct_reclaim (manager.cpp:47)
DirectReclaimBudget == 10
\* tracker words per generation (manager.cpp:15, main.cpp:177)
TrackerSize == 64
\* bits of one tracker word (std::atomic<uint64_t>)
WordBits == 64

\* The three standard-library behaviours that matter once a list is handed
\* an iterator of another list (undefined behaviour of std::list::erase):
\*   libstdcxx  erase unhooks the node where it is and decrements the size
\*              counter of the list it was called on; empty() looks at the
\*              links, size() at the counter
\*   libcxx     the same erase; empty() and size() both look at the counter
\*   checked    a checked-iterator build aborts the process in erase
\* Which one the program was built with shows only at the first such erase:
\* an engine's `build` is "unknown" until then, and that erase settles it.
Builds == {"libstdcxx", "libcxx", "checked"}

\* frame ids fed to an engine that is driven directly; the first and the
\* last fold onto the same (word, bit) of a tracker
EnginePageIds == {0, 1, WordBits * TrackerSize}

VARIABLES
    mglru,      \* the MGLRU engine: generations, page table
    result,     \* the ReclaimResult the engine call just made returned
    scan_in,    \* what that scan_and_reclaim call was given
    accessed,   \* resident ids passed to on_page_accessed since the last scan returned
    drive,      \* the test driver's script position and bookkeeping
    capacity,   \* MemoryManager::capacity_
    free_list,  \* MemoryManager::free_list_
    mtx,        \* the thread that holds MemoryManager::mtx_, or "none"
    stop_thread,\* MemoryManager::stop_thread_
    pc,         \* where each caller thread is inside allocate_page
    ret,        \* what each caller's last allocate_page call returned
    kswapd,     \* the background reclaim thread: its place and its locals
    joined,     \* the destructor has joined the background thread
    in_use      \* the frame ids allocate_page handed out, not freed or evicted since

mvars == <<capacity, free_list, mtx, stop_thread, pc, ret, kswapd, joined, in_use>>

vars == <<mglru, result, scan_in, accessed, drive, mvars>>

(***************************************************************************)
(* AccessTracker: the set of (word, bit) pairs whose bit is 1.             *)
(***************************************************************************)
BitOf(page_id) == <<(page_id \div WordBits) % TrackerSize, page_id % WordBits>>

TrackerSet(bitset, page_id) == bitset \cup {BitOf(page_id)}

\* check_and_clear: the value returned, and the bitset left behind
TrackerCheck(bitset, page_id) == BitOf(page_id) \in bitset

\* mutant of TrackerCheckAndClear: the whole word is cleared, not the one bit
TrackerCheckAndClear_Word(bitset, page_id) ==
    {b \in bitset : b[1] # BitOf(page_id)[1]}

TrackerCheckAndClear(bitset, page_id) == bitset \ {BitOf(page_id)}

TrackerClear(bitset) == {}

(***************************************************************************)
(* Generation: a std::list of nodes, newest at the head.  A node is the    *)
(* frame id it stores and its identity `it` (what a list iterator points   *)
(* at); `size` is the list's element counter.                              *)
(***************************************************************************)
NewGeneration == [pages |-> <<>>, size |-> 0, bitset |-> {}]

Range(s) == {s[i] : i \in 1..Len(s)}

\* F applied to the value of x.  x is evaluated once, which a LET does not
\* ensure where TLC evaluates an ENABLED
With(x, F(_)) == CHOOSE r \in {F(v) : v \in {x}} : TRUE

AllNodes(e) == UNION {Range(e.generations[g].pages) : g \in DOMAIN e.generations}

\* the node a push_front allocates: distinct from every node alive
NewNode(e, page_id) ==
    LET used == UNION {{e.generations[g].pages[k].it[2] :
                            k \in {j \in 1..Len(e.generations[g].pages) :
                                      e.generations[g].pages[j].id = page_id}} :
                        g \in DOMAIN e.generations}
        fresh == CHOOSE j \in 0..Cardinality(used) :
                    j \notin used /\ \A i \in 0..(j - 1) : i \in used
    IN  <<page_id, fresh>>

\* mutant of GenAddPage: the node goes to the tail of the list
GenAddPage_Back(gen, page_id, it) ==
    [gen EXCEPT !.pages = Append(@, [id |-> page_id, it |-> it]), !.size = @ + 1]

GenAddPage(gen, page_id, it) ==
    [gen EXCEPT !.pages = <<[id |-> page_id, it |-> it]>> \o @, !.size = @ + 1]

Holds(gen, it) == \E i \in 1..Len(gen.pages) : gen.pages[i].it = it

Unhook(pages, it) == SelectSeq(pages, LAMBDA n : n.it # it)

\* generations_[g].remove_page(it): std::list::erase.  When the node is not
\* in generation g's list the behaviour is undefined; see Builds.
GenRemovePage(e, g, it) ==
    IF e.aborted THEN e
    ELSE IF Holds(e.generations[g], it)
    THEN [e EXCEPT !.generations[g].pages = Unhook(@, it),
                   !.generations[g].size = @ - 1]
    ELSE IF e.build = "checked" THEN [e EXCEPT !.aborted = TRUE, !.ub = TRUE]
    ELSE [e EXCEPT !.ub = TRUE,
                   !.generations =
            [h \in DOMAIN e.generations |->
                [e.generations[h] EXCEPT
                    !.pages = Unhook(@, it),
                    !.size = IF h = g THEN @ - 1 ELSE @]]]

\* pages.size() < pages_to_scan / 4 on size_t values: a negative integer stands
\* for that value + 2^64 (a wrapped counter, a wrapped budget)
SizeBelowQuarter(size, pages_to_scan) ==
    IF pages_to_scan >= 0 THEN size >= 0 /\ size < pages_to_scan \div 4
    ELSE size >= 0

\* pages.empty() of generation g
ListEmpty(e, g) ==
    IF e.build = "libcxx" THEN e.generations[g].size = 0
    ELSE Len(e.generations[g].pages) = 0

ListSize(gen) == gen.size

(***************************************************************************)
(* MGLRU core                                                              *)
(***************************************************************************)
NewMGLRU(num_generations) ==
    [max_generations |-> num_generations,
     generations |-> [g \in 0..(num_generations - 1) |-> NewGeneration],
     page_table |-> <<>>,
     build |-> "unknown",
     ub |-> FALSE,
     aborted |-> FALSE]

\* the builds an engine may still turn out to be
BuildsOf(e) == IF e.build = "unknown" THEN Builds ELSE {e.build}

\* the engine e, taken to be built with b
As(e, b) == [e EXCEPT !.build = b]

\* the engine after a call that ran as one build: the build is known from
\* then on if the call met the erase that tells the builds apart
Settle(before, after) == IF after.ub THEN after ELSE [after EXCEPT !.build = before.build]

Resident(e) == DOMAIN e.page_table

OnPageAdded(e, page_id) ==
    IF e.aborted THEN e
    ELSE LET it == NewNode(e, page_id)
         IN  [e EXCEPT
                !.generations[0] = GenAddPage(@, page_id, it),
                !.page_table = (page_id :> [id |-> page_id,
                                            generation_index |-> 0,
                                            lru_iterator |-> it]) @@ @]

\* mutant of OnPageAccessed: the bit is set in the youngest generation's tracker
OnPageAccessed_Youngest(e, page_id) ==
    IF e.aborted \/ page_id \notin Resident(e) THEN e
    ELSE [e EXCEPT !.generations[0].bitset = TrackerSet(@, page_id)]

\* mutant of OnPageAccessed: the accessed frame also moves to the head of its list
OnPageAccessed_MoveToHead(e, page_id) ==
    IF e.aborted \/ page_id \notin Resident(e) THEN e
    ELSE LET gen_idx == e.page_table[page_id].generation_index
             it == e.page_table[page_id].lru_iterator
         IN  [e EXCEPT !.generations[gen_idx].bitset = TrackerSet(@, page_id),
                       !.generations[gen_idx].pages =
                            SelectSeq(@, LAMBDA n : n.it = it) \o Unhook(@, it)]

OnPageAccessed(e, page_id) ==
    IF e.aborted \/ page_id \notin Resident(e) THEN e
    ELSE LET gen_idx == e.page_table[page_id].generation_index
         IN  [e EXCEPT !.generations[gen_idx].bitset = TrackerSet(@, page_id)]

PromotePage(e, page_id) ==
    LET meta == e.page_table[page_id]
        current_gen == meta.generation_index
        new_gen == current_gen - 1
        removed == GenRemovePage(e, current_gen, meta.lru_iterator)
        new_it == NewNode(removed, page_id)
    IN  IF current_gen = 0 \/ e.aborted THEN e
        ELSE IF removed.aborted THEN removed
        ELSE [removed EXCEPT
                !.generations[new_gen] = GenAddPage(@, page_id, new_it),
                !.page_table[page_id].generation_index = new_gen,
                !.page_table[page_id].lru_iterator = new_it]

\* mutant of AgeMovePage: the moved frame's generation_index is left as it was
AgeMovePage_StaleIndex(e, i, page_id) ==
    IF e.aborted \/ page_id \notin Resident(e) THEN e
    ELSE LET removed == GenRemovePage(e, i - 1, e.page_table[page_id].lru_iterator)
             new_it == NewNode(removed, page_id)
         IN  IF removed.aborted THEN removed
             ELSE [removed EXCEPT
                     !.generations[i] = GenAddPage(@, page_id, new_it),
                     !.page_table[page_id].lru_iterator = new_it]

\* one iteration of the inner loop of age_generations: page_id leaves
\* generation i - 1 for generation i
AgeMovePage(e, i, page_id) ==
    IF e.aborted \/ page_id \notin Resident(e) THEN e
    ELSE With(GenRemovePage(e, i - 1, e.page_table[page_id].lru_iterator),
              LAMBDA removed :
                LET new_it == NewNode(removed, page_id)
                IN  IF removed.aborted THEN removed
                    ELSE [removed EXCEPT
                            !.generations[i] = GenAddPage(@, page_id, new_it),
                            !.page_table[page_id].generation_index = i,
                            !.page_table[page_id].lru_iterator = new_it])

\* the move loop, front to back; the sequence is walked by halves
RECURSIVE AgeMovePages(_, _, _)
AgeMovePages(e, i, pages_to_move) ==
    LET n == Len(pages_to_move)
    IN  IF n = 0 THEN e
        ELSE IF n = 1 THEN AgeMovePage(e, i, pages_to_move[1])
        ELSE With(AgeMovePages(e, i, SubSeq(pages_to_move, 1, n \div 2)),
                  LAMBDA moved :
                    IF moved.aborted THEN moved
                    ELSE AgeMovePages(moved, i, SubSeq(pages_to_move, (n \div 2) + 1, n)))

PageIdsOf(pages) == [k \in 1..Len(pages) |-> pages[k].id]

\* mutant of AgeStep: the pages move but the younger tracker is not cleared
AgeStep_KeepTracker(e, i) ==
    AgeMovePages(e, i, PageIdsOf(e.generations[i - 1].pages))

\* mutant of AgeStep: the tracker is cleared but no page is moved
AgeStep_NoMove(e, i) ==
    IF e.aborted THEN e ELSE [e EXCEPT !.generations[i - 1].bitset = TrackerClear(@)]

\* the body of the outer loop for one i, tracker clear included
AgeStep(e, i) ==
    With(AgeMovePages(e, i, PageIdsOf(e.generations[i - 1].pages)),
         LAMBDA moved :
            IF moved.aborted THEN moved
            ELSE [moved EXCEPT !.generations[i - 1].bitset = TrackerClear(@)])

RECURSIVE AgeFrom(_, _)
AgeFrom(e, i) ==
    IF i < 1 THEN e ELSE With(AgeStep(e, i), LAMBDA stepped : AgeFrom(stepped, i - 1))

AgeGenerations(e) ==
    LET oldest_idx == e.max_generations - 1
    IN  With(AgeFrom(e, oldest_idx),
             LAMBDA aged :
                IF aged.aborted THEN aged
                ELSE [aged EXCEPT !.generations[oldest_idx].bitset = TrackerClear(@)])

EmptyResult == [evicted_pages |-> <<>>, promoted_pages_count |-> 0, scanned_pages_count |-> 0]

\* the ids of the last min(pages_to_scan, length) nodes, tail first
CollectPages(pages, pages_to_scan) ==
    LET n == IF pages_to_scan < 0 \/ Len(pages) < pages_to_scan
             THEN Len(pages) ELSE pages_to_scan
    IN  [k \in 1..n |-> pages[Len(pages) + 1 - k].id]

\* one iteration of the processing loop; st = [e, result]
ProcessPage(st, page_id) ==
    LET e == st.e
        oldest_idx == e.max_generations - 1
        oldest_gen == e.generations[oldest_idx]
    IN  IF e.aborted \/ page_id \notin Resident(e) THEN st
        ELSE IF TrackerCheck(oldest_gen.bitset, page_id)
        THEN [e |-> PromotePage(
                       [e EXCEPT !.generations[oldest_idx].bitset =
                                     TrackerCheckAndClear(@, page_id)], page_id),
              result |-> [st.result EXCEPT !.promoted_pages_count = @ + 1]]
        ELSE LET removed == GenRemovePage(e, oldest_idx, e.page_table[page_id].lru_iterator)
             IN  IF removed.aborted THEN [st EXCEPT !.e = removed]
                 ELSE [e |-> [removed EXCEPT !.page_table =
                                [p \in DOMAIN @ \ {page_id} |-> @[p]]],
                       result |-> [st.result EXCEPT !.evicted_pages = Append(@, page_id)]]

RECURSIVE ProcessPages(_, _)
ProcessPages(st, pages_to_process) ==
    LET n == Len(pages_to_process)
    IN  IF n = 0 THEN st
        ELSE IF n = 1 THEN ProcessPage(st, pages_to_process[1])
        ELSE LET done == ProcessPages(st, SubSeq(pages_to_process, 1, n \div 2))
             IN  IF done.e.aborted THEN done
                 ELSE ProcessPages(done, SubSeq(pages_to_process, (n \div 2) + 1, n))

\* the tail of scan_and_reclaim: the count, and the refill
ScanFinish(st, scanned, pages_to_scan) ==
    LET e == st.e
        oldest_idx == e.max_generations - 1
        res == [st.result EXCEPT !.scanned_pages_count = scanned]
    IN  IF e.aborted THEN st
        ELSE IF SizeBelowQuarter(ListSize(e.generations[oldest_idx]), pages_to_scan)
        THEN [e |-> AgeGenerations(e), result |-> res]
        ELSE [e |-> e, result |-> res]

ScanAndReclaim(e, pages_to_scan) ==
    LET oldest_idx == e.max_generations - 1
        pages == e.generations[oldest_idx].pages
        pages_to_process == CollectPages(pages, pages_to_scan)
    IN  IF e.aborted THEN [e |-> e, result |-> EmptyResult]
        ELSE IF ListEmpty(e, oldest_idx)
        THEN [e |-> AgeGenerations(e), result |-> EmptyResult]
        ELSE ScanFinish(ProcessPages([e |-> e, result |-> EmptyResult], pages_to_process),
                        Len(pages_to_process), pages_to_scan)

(***************************************************************************)
(* SpecEngine: an MGLRU driven directly, as the unit tests drive it.       *)
(***************************************************************************)
NoScan == [pages_to_scan |-> 0, pages_to_process |-> <<>>, accessed |-> {}]

NoDrive == [phase |-> "none", calls |-> 0, budget |-> 0, population |-> {}, evicted_log |-> <<>>]

\* std::optional<PageId>: std::nullopt, or a value
None == <<>>

Some(page_id) == <<page_id>>

\* what a caller's last call returned: the result of allocate_page, or
\* nothing for the void calls
NoReturn == [call |-> "-", value |-> None]

Returned(value) == [call |-> "allocate_page", value |-> value]

\* the caller threads of a MemoryManager
Callers == {"c1"}

\* the ids callers pass to access_page and free_page: frames of the pool and
\* one id outside it
CallerIds == {0, 1, capacity}

KswapdAt(where) ==
    [pc |-> where, target_reclaim |-> 0, pages_to_process |-> <<>>, scanned |-> 0,
     result |-> EmptyResult]

\* no MemoryManager is built around the engine
NoManager ==
    /\ capacity = 0
    /\ free_list = <<>>
    /\ mtx = "none"
    /\ stop_thread = FALSE
    /\ pc = [c \in Callers |-> "idle"]
    /\ ret = [c \in Callers |-> NoReturn]
    /\ kswapd = KswapdAt("exited")
    /\ joined = FALSE
    /\ in_use = {}

InitEngine ==
    /\ NoManager
    /\ \E n \in 1..MaxGenerations : mglru = NewMGLRU(n)
    /\ result = EmptyResult
    /\ scan_in = NoScan
    /\ accessed = {}
    /\ drive = NoDrive

\* on_page_added(page_id), page_id not resident
EngineAdd(page_id) ==
    /\ page_id \notin Resident(mglru)
    /\ mglru' = OnPageAdded(mglru, page_id)
    /\ result' = EmptyResult
    /\ scan_in' = NoScan
    /\ UNCHANGED accessed

EngineAccess(page_id) ==
    /\ mglru' = OnPageAccessed(mglru, page_id)
    /\ accessed' = accessed \cup ({page_id} \cap Resident(mglru))
    /\ result' = EmptyResult
    /\ scan_in' = NoScan

EngineScan(pages_to_scan) ==
    \E b \in BuildsOf(mglru) :
        LET out == ScanAndReclaim(As(mglru, b), pages_to_scan)
        IN  /\ mglru' = Settle(mglru, out.e)
            /\ result' = out.result
            /\ scan_in' = [pages_to_scan |-> pages_to_scan,
                           pages_to_process |->
                               IF ListEmpty(As(mglru, b), mglru.max_generations - 1)
                               THEN <<>>
                               ELSE CollectPages(
                                        mglru.generations[mglru.max_generations - 1].pages,
                                        pages_to_scan),
                           accessed |-> accessed]
            /\ accessed' = {}

NextEngine ==
    \/ \E page_id \in EnginePageIds : EngineAdd(page_id) /\ UNCHANGED <<drive, mvars>>
    \/ \E page_id \in EnginePageIds : EngineAccess(page_id) /\ UNCHANGED <<drive, mvars>>
    \/ \E pages_to_scan \in Budgets : EngineScan(pages_to_scan) /\ UNCHANGED <<drive, mvars>>

SpecEngine == InitEngine /\ [][NextEngine]_vars

(***************************************************************************)
(* SpecCold: the driver of ScanAndReclaimWithoutAccess (main.cpp:216-237): *)
(* a population is added to a fresh engine, then scan_and_reclaim is       *)
(* called with one budget, over and over.                                  *)
(***************************************************************************)
CeilDiv(a, b) == (a + b - 1) \div b

\* the number of calls within which the population is to be gone
ColdCalls == (mglru.max_generations - 1)
                 + CeilDiv(Cardinality(drive.population), drive.budget)

InitCold ==
    /\ NoManager
    /\ \E n \in 1..MaxGenerations : mglru = NewMGLRU(n)
    /\ result = EmptyResult
    /\ scan_in = NoScan
    /\ accessed = {}
    /\ \E b \in Budgets : drive = [NoDrive EXCEPT !.phase = "add", !.budget = b]

ColdAdd(page_id) ==
    /\ drive.phase = "add"
    /\ EngineAdd(page_id)
    /\ drive' = [drive EXCEPT !.population = @ \cup {page_id}]
    /\ UNCHANGED mvars

ColdScan ==
    /\ drive.calls <= ColdCalls
    /\ EngineScan(drive.budget)
    /\ drive' = [drive EXCEPT !.phase = "scan",
                              !.calls = @ + 1,
                              !.evicted_log = @ \o result'.evicted_pages]
    /\ UNCHANGED mvars

NextCold ==
    \/ \E page_id \in EnginePageIds : ColdAdd(page_id)
    \/ ColdScan

SpecCold == InitCold /\ [][NextCold]_vars

(***************************************************************************)
(* SpecHot: the driver of AccessedPagesNotEvictedImmediately               *)
(* (main.cpp:284-308): one page is added, then it is accessed before every *)
(* scan_and_reclaim call.                                                  *)
(***************************************************************************)
InitHot ==
    /\ NoManager
    /\ \E n \in 1..MaxGenerations : mglru = NewMGLRU(n)
    /\ result = EmptyResult
    /\ scan_in = NoScan
    /\ accessed = {}
    /\ drive = [NoDrive EXCEPT !.phase = "add"]

HotAdd(page_id) ==
    /\ drive.phase = "add"
    /\ EngineAdd(page_id)
    /\ drive' = [drive EXCEPT !.phase = "access", !.population = {page_id}]
    /\ UNCHANGED mvars

HotAccess ==
    /\ drive.phase = "access"
    /\ \E page_id \in drive.population : EngineAccess(page_id)
    /\ drive' = [drive EXCEPT !.phase = "scan"]
    /\ UNCHANGED mvars

HotScan(pages_to_scan) ==
    /\ drive.phase = "scan"
    /\ EngineScan(pages_to_scan)
    /\ drive' = [drive EXCEPT !.phase = "access",
                              !.evicted_log = @ \o result'.evicted_pages]
    /\ UNCHANGED mvars

NextHot ==
    \/ \E page_id \in EnginePageIds : HotAdd(page_id)
    \/ HotAccess
    \/ \E pages_to_scan \in Budgets : HotScan(pages_to_scan)

SpecHot == InitHot /\ [][NextHot]_vars

(***************************************************************************)
(* SpecAge: age_generations() applied to the engines that on_page_added,   *)
(* on_page_accessed and earlier age_generations() calls build.             *)
(* drive.phase is "aged" right after a call made with only generation 0    *)
(* populated, "again" right after the call that follows it at once.        *)
(***************************************************************************)
\* generation g holds frames and no other generation does
OnlyPopulated(e, g) ==
    \A h \in DOMAIN e.generations : (e.generations[h].pages # <<>>) = (h = g)

AgeAdd(page_id) ==
    /\ EngineAdd(page_id)
    /\ drive' = NoDrive
    /\ UNCHANGED mvars

AgeAccess(page_id) ==
    /\ page_id \in Resident(mglru)
    /\ EngineAccess(page_id)
    /\ drive' = NoDrive
    /\ UNCHANGED mvars

\* age_generations()
EngineAge ==
    /\ mglru' = AgeGenerations(mglru)
    /\ result' = EmptyResult
    /\ scan_in' = NoScan
    /\ accessed' = {}
    /\ drive' = [NoDrive EXCEPT
                    !.phase = IF mglru.max_generations >= 2 /\ OnlyPopulated(mglru, 0)
                              THEN "aged"
                              ELSE IF drive.phase = "aged" THEN "again"
                              ELSE "other"]
    /\ UNCHANGED mvars

NextAge ==
    \/ \E page_id \in EnginePageIds : AgeAdd(page_id)
    \/ \E page_id \in EnginePageIds : AgeAccess(page_id)
    \/ EngineAge

SpecAge == InitEngine /\ [][NextAge]_vars

(***************************************************************************)
(* SpecTracker: one AccessTracker of `size` words, driven as                *)
(* AccessTrackerTest drives it (main.cpp:20-79) with set, check_and_clear  *)
(* and clear in any order.  drive holds the fixture: the tracker, the      *)
(* value the last check_and_clear returned, the last call, and `pending`,  *)
(* the ids given to set() that no clear() and no check_and_clear of a      *)
(* congruent id has followed.                                              *)
(***************************************************************************)
\* a & b on non-negative integers
RECURSIVE BitAnd(_, _)
BitAnd(a, b) ==
    IF a = 0 \/ b = 0 THEN 0
    ELSE (a % 2) * (b % 2) + 2 * BitAnd(a \div 2, b \div 2)

\* the sizes a tracker is built with: powers of two
TrackerSizes == {1, 2, TrackerSize}

\* AccessTracker(size): `size` zeroed words and the mask size - 1
NewAccessTracker(size) == [size_mask |-> size - 1, bitset |-> {}]

\* idx = (page_id >> 6) & size_mask_, bit = page_id & 0x3F
SlotOf(tracker, page_id) ==
    <<BitAnd(page_id \div WordBits, tracker.size_mask), BitAnd(page_id, WordBits - 1)>>

AccessTrackerSet(tracker, page_id) ==
    [tracker EXCEPT !.bitset = @ \cup {SlotOf(tracker, page_id)}]

\* mutant of AccessTrackerCheckAndClear: the bit is read and left as it is
AccessTrackerCheckAndClear_Keep(tracker, page_id) ==
    [tracker |-> tracker,
     value |-> SlotOf(tracker, page_id) \in tracker.bitset]

\* check_and_clear: fetch_and(~mask) and the test of the old value
AccessTrackerCheckAndClear(tracker, page_id) ==
    [tracker |-> [tracker EXCEPT !.bitset = @ \ {SlotOf(tracker, page_id)}],
     value |-> SlotOf(tracker, page_id) \in tracker.bitset]

AccessTrackerClear(tracker) == [tracker EXCEPT !.bitset = {}]

\* a and b are congruent modulo 64 * size
Congruent(a, b, size) == a % (WordBits * size) = b % (WordBits * size)

\* ids given to a tracker of `size` words: ids of one word, of two words, and
\* ids one and two multiples of 64 * size apart
TrackerIdsOf(size) ==
    {0, 1, WordBits - 1, WordBits, WordBits * size, WordBits * size + 1,
     2 * WordBits * size}

InitTracker ==
    /\ NoManager
    /\ mglru = NewMGLRU(1)
    /\ result = EmptyResult
    /\ scan_in = NoScan
    /\ accessed = {}
    /\ \E size \in TrackerSizes :
          drive = [phase |-> "fresh", size |-> size, tracker |-> NewAccessTracker(size),
                   pending |-> {}, page_id |-> 0, value |-> FALSE]

\* tracker->set(page_id)
TrackerSetCall(page_id) ==
    /\ drive' = [drive EXCEPT !.phase = "set",
                              !.page_id = page_id,
                              !.tracker = AccessTrackerSet(@, page_id),
                              !.pending = @ \cup {page_id}]
    /\ UNCHANGED <<mglru, result, scan_in, accessed, mvars>>

\* tracker->check_and_clear(page_id)
TrackerCheckCall(page_id) ==
    LET out == AccessTrackerCheckAndClear(drive.tracker, page_id)
    IN  /\ drive' = [drive EXCEPT !.phase = "check_and_clear",
                                  !.page_id = page_id,
                                  !.tracker = out.tracker,
                                  !.value = out.value,
                                  !.pending = {b \in @ : ~Congruent(page_id, b, drive.size)}]
        /\ UNCHANGED <<mglru, result, scan_in, accessed, mvars>>

\* tracker->clear()
TrackerClearCall ==
    /\ drive' = [drive EXCEPT !.phase = "clear",
                              !.tracker = AccessTrackerClear(@),
                              !.pending = {}]
    /\ UNCHANGED <<mglru, result, scan_in, accessed, mvars>>

NextTracker ==
    \/ \E page_id \in TrackerIdsOf(drive.size) : TrackerSetCall(page_id)
    \/ \E page_id \in TrackerIdsOf(drive.size) : TrackerCheckCall(page_id)
    \/ TrackerClearCall

SpecTracker == InitTracker /\ [][NextTracker]_vars

(***************************************************************************)
(* SpecGeneration: one Generation, driven as GenerationTest drives it      *)
(* (main.cpp:82-135) with add_page and with remove_page of handles that    *)
(* add_page returned and that were not removed since.  drive holds the     *)
(* fixture: the generation, the live handles with the id each was returned *)
(* for, the ids added so far in call order, the number of remove_page      *)
(* calls, and the handle and list position of the last remove_page.        *)
(***************************************************************************)
\* add_page calls made on one Generation
MaxAdds == 4

\* the ids GenerationTest adds
GenerationPageIds == {100, 200, 300}

\* an engine around the one generation, for the node allocator and the erase
EngineOf(gen) == [NewMGLRU(1) EXCEPT !.generations[0] = gen]

InitGeneration ==
    /\ NoManager
    /\ mglru = NewMGLRU(1)
    /\ result = EmptyResult
    /\ scan_in = NoScan
    /\ accessed = {}
    /\ drive = [phase |-> "fresh", gen |-> NewGeneration, handles |-> <<>>,
                added |-> <<>>, removes |-> 0, it |-> <<>>, position |-> 0]

\* it = gen->add_page(page_id)
GenAddCall(page_id) ==
    LET it == NewNode(EngineOf(drive.gen), page_id)
    IN  /\ Len(drive.added) < MaxAdds
        /\ drive' = [drive EXCEPT !.phase = "add_page",
                                  !.gen = GenAddPage(@, page_id, it),
                                  !.handles = (it :> page_id) @@ @,
                                  !.added = Append(@, page_id),
                                  !.it = it]
        /\ UNCHANGED <<mglru, result, scan_in, accessed, mvars>>

\* gen->remove_page(it), it a live handle
GenRemoveCall(it) ==
    /\ it \in DOMAIN drive.handles
    /\ drive' = [drive EXCEPT
                    !.phase = "remove_page",
                    !.gen = GenRemovePage(EngineOf(@), 0, it).generations[0],
                    !.handles = [h \in DOMAIN @ \ {it} |-> @[h]],
                    !.removes = @ + 1,
                    !.it = it,
                    !.position = CHOOSE k \in 1..Len(drive.gen.pages) :
                                    drive.gen.pages[k].it = it]
    /\ UNCHANGED <<mglru, result, scan_in, accessed, mvars>>

NextGeneration ==
    \/ \E page_id \in GenerationPageIds : GenAddCall(page_id)
    \/ \E it \in DOMAIN drive.handles : GenRemoveCall(it)

SpecGeneration == InitGeneration /\ [][NextGeneration]_vars

(***************************************************************************)
(* SpecPid: one PidController(0.1, 0.01, 0.05), driven as                   *)
(* PidControllerTest drives it (main.cpp:138-170) with update_metrics and  *)
(* get_scan_intensity.  The doubles are kept as exact fractions: a gain is *)
(* a number of hundredths, an error and the integral a number of           *)
(* 1 / ErrorUnit.  size_t is SizeBits wide.  drive holds the fixture: the  *)
(* controller, the number of update_metrics calls, the value the last      *)
(* get_scan_intensity returned (0: none yet), and for the last two         *)
(* update_metrics calls the error and the intensity read after it.         *)
(***************************************************************************)
\* bits of size_t in the model
SizeBits == 16

SizeMax == 2 ^ SizeBits - 1

\* errors are multiples of 1 / ErrorUnit: every reclaimed in PidReclaimed
\* other than 0 divides ErrorUnit
ErrorUnit == 400

\* the gains of the fixture, in hundredths (main.cpp:141)
Kp == 10

Ki == 1

Kd == 5

\* std::clamp(integral_, -100.0, 100.0)
IntegralLimit == 100

\* base_intensity
BaseIntensity == 32

\* adjustment = output * 10.0
AdjustmentFactor == 10

\* std::clamp(intensity, size_t(1), size_t(1024))
MinIntensity == 1

MaxIntensity == 1024

\* update_metrics calls made on one controller
MaxUpdates == 3

PidRefaults == {0, 5, 10, SizeMax \div 2, SizeMax}

PidScanned == {100}

PidReclaimed == {0, 1, 5, 40, 50, 80}

\* What static_cast<size_t>(double) does with a value that size_t cannot
\* hold (undefined behaviour): the x86-64 instruction sequence gives 0, the
\* AArch64 instruction saturates, a build that checks the conversion stops
\* the process.  A program is one build: drive.build, fixed from the start.
ConversionBuilds == {"x86_64", "aarch64", "trapping"}

Clamp(v, lo, hi) == IF v < lo THEN lo ELSE IF v > hi THEN hi ELSE v

NewPidController(p, i, d) == [Kp |-> p, Ki |-> i, Kd |-> d, integral |-> 0, prev_error |-> 0]

\* refaults / reclaimed, 0.0 when reclaimed is 0, in 1 / ErrorUnit
ErrorOf(refaults, reclaimed) ==
    IF reclaimed > 0 THEN refaults * (ErrorUnit \div reclaimed) ELSE 0

UpdateMetrics(c, refaults, scanned, reclaimed) ==
    LET error == ErrorOf(refaults, reclaimed)
    IN  [c EXCEPT !.integral = Clamp(@ + error, -IntegralLimit * ErrorUnit,
                                     IntegralLimit * ErrorUnit),
                  !.prev_error = error]

\* output, in 1 / (100 * ErrorUnit)
Output(c) == c.Kp * c.prev_error + c.Ki * c.integral + c.Kd * (c.prev_error - c.integral)

\* std::max(0.0, adjustment), truncated towards zero
Adjustment(c) ==
    LET output == Output(c)
    IN  IF output <= 0 THEN 0 ELSE output \div ((100 * ErrorUnit) \div AdjustmentFactor)

\* get_scan_intensity() in build b: whether the conversion stopped the
\* process, and the value returned otherwise
GetScanIntensity(c, b) ==
    LET adjustment == Adjustment(c)
        converted == IF adjustment <= SizeMax THEN adjustment
                     ELSE IF b = "x86_64" THEN 0 ELSE SizeMax
        intensity == (BaseIntensity + converted) % (2 ^ SizeBits)
    IN  [trapped |-> adjustment > SizeMax /\ b = "trapping",
         value |-> Clamp(intensity, MinIntensity, MaxIntensity)]

NoReading == [error |-> 0, intensity |-> 0]

InitPid ==
    /\ NoManager
    /\ mglru = NewMGLRU(1)
    /\ result = EmptyResult
    /\ scan_in = NoScan
    /\ accessed = {}
    /\ \E b \in ConversionBuilds :
          drive = [phase |-> "fresh", build |-> b,
                   controller |-> NewPidController(Kp, Ki, Kd),
                   calls |-> 0, intensity |-> 0, before |-> NoReading, last |-> NoReading]

\* controller->update_metrics(refaults, scanned, reclaimed)
PidUpdate(refaults, scanned, reclaimed) ==
    /\ drive.phase # "trapped"
    /\ drive.calls < MaxUpdates
    /\ drive' = [drive EXCEPT
                    !.phase = "update_metrics",
                    !.controller = UpdateMetrics(@, refaults, scanned, reclaimed),
                    !.calls = @ + 1,
                    !.before = drive.last,
                    !.last = [error |-> ErrorOf(refaults, reclaimed), intensity |-> 0]]
    /\ UNCHANGED <<mglru, result, scan_in, accessed, mvars>>

\* controller->get_scan_intensity()
PidRead ==
    LET out == GetScanIntensity(drive.controller, drive.build)
    IN  /\ drive.phase # "trapped"
        /\ drive' = IF out.trapped
                     THEN [drive EXCEPT !.phase = "trapped", !.intensity = 0]
                     ELSE [drive EXCEPT
                            !.phase = "get_scan_intensity",
                            !.intensity = out.value,
                            !.last = IF drive.calls = 0 THEN @
                                     ELSE [@ EXCEPT !.intensity = out.value]]
        /\ UNCHANGED <<mglru, result, scan_in, accessed, mvars>>

NextPid ==
    \/ \E refaults \in PidRefaults, scanned \in PidScanned, reclaimed \in PidReclaimed :
          PidUpdate(refaults, scanned, reclaimed)
    \/ PidRead

SpecPid == InitPid /\ [][NextPid]_vars

(***************************************************************************)
(* MemoryManager.  Spec: caller threads calling allocate_page, access_page *)
(* and free_page, the background reclaim thread, and the destructor.       *)
(* A step of a thread is one critical section of mtx_, or one statement of *)
(* the code it runs without the mutex.  size_t values are kept as          *)
(* integers; a negative integer stands for that value + 2^64.              *)
(***************************************************************************)
HighWatermark == (capacity * 90) \div 100

MinWatermark == (capacity * 70) \div 100

\* unsigned a > b
UGreater(a, b) == IF (a < 0) = (b < 0) THEN a > b ELSE a < 0

\* capacity_ - free_list_.size()
Used(fl) == capacity - Len(fl)

AddToFreeList(fl, page_id) == Append(fl, page_id)

RECURSIVE AddEvicted(_, _)
AddEvicted(fl, evicted_pages) ==
    IF evicted_pages = <<>> THEN fl
    ELSE AddEvicted(AddToFreeList(fl, Head(evicted_pages)), Tail(evicted_pages))

\* cv_.notify_one() / cv_.notify_all(): the one waiter is the background thread
Notify(k) == IF k.pc = "waiting" THEN [k EXCEPT !.pc = "lock"] ELSE k

\* free_page calls made so far
FreeCalls ==
    Len(free_list) + Cardinality(AllNodes(mglru)) + Len(kswapd.result.evicted_pages) - capacity

SkewOK(e) ==
    \A g \in DOMAIN e.generations :
        e.generations[g].size - Len(e.generations[g].pages) \in (-MaxSkew)..MaxSkew

\* the process runs and its object is alive
Alive == ~mglru.aborted /\ ~stop_thread

evars == <<result, scan_in, accessed, drive>>

Init ==
    /\ mglru = NewMGLRU(ManagerGenerations)
    /\ result = EmptyResult
    /\ scan_in = NoScan
    /\ accessed = {}
    /\ drive = NoDrive
    /\ capacity = Capacity
    /\ free_list = [i \in 1..Capacity |-> i - 1]
    /\ mtx = "none"
    /\ stop_thread = FALSE
    /\ pc = [c \in Callers |-> "idle"]
    /\ ret = [c \in Callers |-> NoReturn]
    /\ kswapd = KswapdAt("lock")
    /\ joined = FALSE
    /\ in_use = {}

\* allocate_page taking the frame at the back of the free list
AllocateTake_Back(c) ==
    LET page_id == free_list[Len(free_list)]
    IN  /\ free_list' = SubSeq(free_list, 1, Len(free_list) - 1)
        /\ mglru' = OnPageAdded(mglru, page_id)
        /\ kswapd' = IF UGreater(Used(free_list'), HighWatermark) THEN Notify(kswapd) ELSE kswapd
        /\ ret' = [ret EXCEPT ![c] = Returned(Some(page_id))]
        /\ in_use' = in_use \cup {page_id}

\* allocate_page from "Allocate from free list" on (manager.cpp:55-68)
AllocateTake(c) ==
    LET page_id == Head(free_list)
    IN  /\ free_list' = Tail(free_list)
        /\ mglru' = OnPageAdded(mglru, page_id)
        /\ kswapd' = IF UGreater(Used(free_list'), HighWatermark) THEN Notify(kswapd) ELSE kswapd
        /\ ret' = [ret EXCEPT ![c] = Returned(Some(page_id))]
        /\ in_use' = in_use \cup {page_id}

\* allocate_page finding a free frame at once
AllocateFast(c) ==
    /\ Alive /\ mtx = "none" /\ pc[c] = "idle"
    /\ free_list # <<>>
    /\ AllocateTake(c)
    /\ UNCHANGED <<evars, capacity, mtx, stop_thread, pc, joined>>

\* allocate_page finding the free list empty: it unlocks for direct_reclaim
AllocateUnlock(c) ==
    /\ Alive /\ mtx = "none" /\ pc[c] = "idle"
    /\ free_list = <<>>
    /\ pc' = [pc EXCEPT ![c] = "direct_reclaim"]
    /\ UNCHANGED <<evars, capacity, mglru, free_list, mtx, stop_thread, ret, kswapd, joined, in_use>>

\* direct_reclaim(10), one critical section
DirectReclaim(c) ==
    \E b \in BuildsOf(mglru) :
        LET out == ScanAndReclaim(As(mglru, b), DirectReclaimBudget)
        IN  /\ ~mglru.aborted /\ mtx = "none" /\ pc[c] = "direct_reclaim"
            /\ SkewOK(out.e)
            /\ mglru' = Settle(mglru, out.e)
            /\ free_list' = AddEvicted(free_list, out.result.evicted_pages)
            /\ in_use' = in_use \ Range(out.result.evicted_pages)
            /\ pc' = [pc EXCEPT ![c] = "relock"]
            /\ UNCHANGED <<evars, capacity, mtx, stop_thread, ret, kswapd, joined>>

\* allocate_page after direct_reclaim: lock again, look again
AllocateRelock(c) ==
    /\ ~mglru.aborted /\ mtx = "none" /\ pc[c] = "relock"
    /\ pc' = [pc EXCEPT ![c] = "idle"]
    /\ IF free_list = <<>>
       THEN /\ ret' = [ret EXCEPT ![c] = Returned(None)]
            /\ UNCHANGED <<mglru, free_list, kswapd, in_use>>
       ELSE AllocateTake(c)
    /\ UNCHANGED <<evars, capacity, mtx, stop_thread, joined>>

AccessPage(c, page_id) ==
    /\ Alive /\ mtx = "none" /\ pc[c] = "idle"
    /\ mglru' = OnPageAccessed(mglru, page_id)
    /\ ret' = [ret EXCEPT ![c] = NoReturn]
    /\ UNCHANGED <<evars, capacity, free_list, mtx, stop_thread, pc, kswapd, joined, in_use>>

FreePage(c, page_id) ==
    /\ Alive /\ mtx = "none" /\ pc[c] = "idle"
    /\ FreeCalls < MaxFreeCalls
    /\ free_list' = AddToFreeList(free_list, page_id)
    /\ in_use' = in_use \ {page_id}
    /\ ret' = [ret EXCEPT ![c] = NoReturn]
    /\ UNCHANGED <<evars, capacity, mglru, mtx, stop_thread, pc, kswapd, joined>>

\* reclaimed_loop from the top of the loop, or from inside cv_.wait after a
\* wake-up: one critical section with the wait predicate, the stop test and
\* the target; it ends in the wait, in the break or in lock.unlock()
\* (manager.cpp:96-114)
BgEnter ==
    LET used == Used(free_list)
    IN  /\ ~mglru.aborted /\ mtx = "none" /\ kswapd.pc = "lock"
        /\ kswapd' =
            IF ~(stop_thread \/ UGreater(used, HighWatermark))
            THEN [kswapd EXCEPT !.pc = "waiting"]
            ELSE IF stop_thread THEN [kswapd EXCEPT !.pc = "exited"]
            ELSE IF UGreater(used, MinWatermark)
            THEN [kswapd EXCEPT !.pc = "scan", !.target_reclaim = used - MinWatermark]
            ELSE [kswapd EXCEPT !.pc = "lock"]
        /\ UNCHANGED <<evars, capacity, mglru, free_list, mtx, stop_thread, pc, ret, joined, in_use>>

\* a condition variable may wake its waiter for no reason
BgSpuriousWake ==
    /\ ~mglru.aborted /\ kswapd.pc = "waiting"
    /\ kswapd' = [kswapd EXCEPT !.pc = "lock"]
    /\ UNCHANGED <<evars, capacity, mglru, free_list, mtx, stop_thread, pc, ret, joined, in_use>>

\* scan_and_reclaim(target_reclaim) without the mutex: the empty test and the
\* collection of pages_to_process (mglru_core.cpp:41-63)
BgScanBegin ==
    \E b \in BuildsOf(mglru) :
        LET e == As(mglru, b)
            oldest_idx == e.max_generations - 1
            pages_to_process ==
                CollectPages(e.generations[oldest_idx].pages, kswapd.target_reclaim)
        IN  /\ ~mglru.aborted /\ kswapd.pc = "scan"
            /\ mglru' = IF ListEmpty(e, oldest_idx)
                         THEN Settle(mglru, AgeGenerations(e))
                         ELSE mglru
            /\ kswapd' = IF ListEmpty(e, oldest_idx)
                          THEN [kswapd EXCEPT !.pc = "relock", !.result = EmptyResult]
                          ELSE [kswapd EXCEPT
                                    !.pc = "process",
                                    !.result = EmptyResult,
                                    !.scanned = Len(pages_to_process),
                                    !.pages_to_process = pages_to_process]
            /\ SkewOK(mglru')
            /\ UNCHANGED <<evars, capacity, free_list, mtx, stop_thread, pc, ret, joined, in_use>>

\* one iteration of the processing loop (mglru_core.cpp:66-85)
BgProcess ==
    \E b \in BuildsOf(mglru) :
        LET st == ProcessPage([e |-> As(mglru, b), result |-> kswapd.result],
                              Head(kswapd.pages_to_process))
        IN  /\ ~mglru.aborted /\ kswapd.pc = "process"
            /\ kswapd.pages_to_process # <<>>
            /\ SkewOK(st.e)
            /\ mglru' = Settle(mglru, st.e)
            /\ kswapd' = [kswapd EXCEPT !.result = st.result, !.pages_to_process = Tail(@)]
            /\ in_use' = IF st.result.evicted_pages # kswapd.result.evicted_pages
                         THEN in_use \ {Head(kswapd.pages_to_process)}
                         ELSE in_use
            /\ UNCHANGED <<evars, capacity, free_list, mtx, stop_thread, pc, ret, joined>>

\* the refill test at the end of scan_and_reclaim (mglru_core.cpp:87-94)
BgFinish ==
    \E b \in BuildsOf(mglru) :
        LET st == ScanFinish([e |-> As(mglru, b), result |-> kswapd.result],
                             kswapd.scanned, kswapd.target_reclaim)
        IN  /\ ~mglru.aborted /\ kswapd.pc = "process"
            /\ kswapd.pages_to_process = <<>>
            /\ SkewOK(st.e)
            /\ mglru' = Settle(mglru, st.e)
            /\ kswapd' = [kswapd EXCEPT !.pc = "relock", !.result = st.result]
            /\ UNCHANGED <<evars, capacity, free_list, mtx, stop_thread, pc, ret, joined, in_use>>

\* lock.lock() after the scan
BgRelock ==
    /\ ~mglru.aborted /\ mtx = "none" /\ kswapd.pc = "relock"
    /\ mtx' = "kswapd"
    /\ kswapd' = [kswapd EXCEPT !.pc = "fold"]
    /\ UNCHANGED <<evars, capacity, mglru, free_list, stop_thread, pc, ret, joined, in_use>>

\* mutant of BgFold: the evicted pages are dropped when shutdown was requested
\* during the pass
BgFold_DropOnStop ==
    /\ ~mglru.aborted /\ mtx = "kswapd" /\ kswapd.pc = "fold"
    /\ free_list' = IF stop_thread THEN free_list
                    ELSE AddEvicted(free_list, kswapd.result.evicted_pages)
    /\ mtx' = "none"
    /\ kswapd' = KswapdAt("lock")
    /\ UNCHANGED <<evars, capacity, mglru, stop_thread, pc, ret, joined, in_use>>

\* the evicted pages go to the free list; the iteration ends and the lock
\* is dropped (manager.cpp:121-125)
BgFold ==
    /\ ~mglru.aborted /\ mtx = "kswapd" /\ kswapd.pc = "fold"
    /\ free_list' = AddEvicted(free_list, kswapd.result.evicted_pages)
    /\ mtx' = "none"
    /\ kswapd' = KswapdAt("lock")
    /\ UNCHANGED <<evars, capacity, mglru, stop_thread, pc, ret, joined, in_use>>

\* ~MemoryManager up to the join: no caller is inside the object
Shutdown ==
    /\ Alive /\ mtx = "none"
    /\ \A c \in Callers : pc[c] = "idle"
    /\ stop_thread' = TRUE
    /\ kswapd' = Notify(kswapd)
    /\ UNCHANGED <<evars, capacity, mglru, free_list, mtx, pc, ret, joined, in_use>>

\* reclaim_thread_.join() returns
Join ==
    /\ stop_thread /\ kswapd.pc = "exited" /\ ~joined
    /\ joined' = TRUE
    /\ UNCHANGED <<evars, capacity, mglru, free_list, mtx, stop_thread, pc, ret, kswapd, in_use>>

Next ==
    \/ \E c \in Callers : AllocateFast(c)
    \/ \E c \in Callers : AllocateUnlock(c)
    \/ \E c \in Callers : DirectReclaim(c)
    \/ \E c \in Callers : AllocateRelock(c)
    \/ \E c \in Callers, page_id \in CallerIds : AccessPage(c, page_id)
    \/ \E c \in Callers, page_id \in CallerIds : FreePage(c, page_id)
    \/ BgEnter
    \/ BgSpuriousWake
    \/ BgScanBegin
    \/ BgProcess
    \/ BgFinish
    \/ BgRelock
    \/ BgFold
    \/ Shutdown
    \/ Join

Spec == Init /\ [][Next]_vars

\* SpecLive: the MemoryManager of Spec used without free_page, under a
\* scheduler that runs the background thread whenever it can take a step and
\* lets a join return once the thread has ended.  Nothing is asked of the
\* callers, of the owner or of spurious wake-ups.
NextLive ==
    \/ \E c \in Callers : AllocateFast(c)
    \/ \E c \in Callers : AllocateUnlock(c)
    \/ \E c \in Callers : DirectReclaim(c)
    \/ \E c \in Callers : AllocateRelock(c)
    \/ \E c \in Callers, page_id \in CallerIds : AccessPage(c, page_id)
    \/ BgEnter
    \/ BgSpuriousWake
    \/ BgScanBegin
    \/ BgProcess
    \/ BgFinish
    \/ BgRelock
    \/ BgFold
    \/ Shutdown
    \/ Join

\* the next step of the background thread, wherever it is, short of waking
\* up for no reason
BgStep == BgEnter \/ BgScanBegin \/ BgProcess \/ BgFinish \/ BgRelock \/ BgFold

Fairness == WF_vars(BgStep) /\ WF_vars(Join)

SpecLive == Init /\ [][NextLive]_vars /\ Fairness

(***************************************************************************)
(* SpecPressure: the MemoryPressure scenario (main.cpp:461-490) on the      *)
(* fixture's MemoryManager(100, 4): one thread allocates PressureFrames    *)
(* frames, then runs PressureRounds rounds, each an access to the first    *)
(* HotFrames frames followed by direct_reclaim(10); the background thread   *)
(* runs beside it: it takes the mutex, finds its target and unlocks        *)
(* (BgEnter), and later runs the rest of the pass.  drive.population is    *)
(* the test's `pages`, drive.calls the rounds done.                        *)
(***************************************************************************)
PressureCapacity == 100

PressureGenerations == 4

PressureFrames == 95

HotFrames == 20

PressureRounds == 10

InitPressure ==
    /\ mglru = NewMGLRU(PressureGenerations)
    /\ result = EmptyResult
    /\ scan_in = NoScan
    /\ accessed = {}
    /\ drive = [NoDrive EXCEPT !.phase = "allocate", !.budget = DirectReclaimBudget]
    /\ capacity = PressureCapacity
    /\ free_list = [i \in 1..PressureCapacity |-> i - 1]
    /\ mtx = "none"
    /\ stop_thread = FALSE
    /\ pc = [c \in Callers |-> "idle"]
    /\ ret = [c \in Callers |-> NoReturn]
    /\ kswapd = KswapdAt("lock")
    /\ joined = FALSE
    /\ in_use = {}

\* one allocate_page() of the first loop; the free list is not empty there
PressureAllocate(c) ==
    /\ ~mglru.aborted /\ mtx = "none"
    /\ drive.phase = "allocate"
    /\ free_list # <<>>
    /\ AllocateTake(c)
    /\ drive' = [drive EXCEPT
                    !.population = @ \cup {Head(free_list)},
                    !.phase = IF Cardinality(drive.population \cup {Head(free_list)})
                                    = PressureFrames
                              THEN "access" ELSE "allocate"]
    /\ UNCHANGED <<result, scan_in, accessed, capacity, mtx, stop_thread, pc, joined>>

RECURSIVE AccessAll(_, _)
AccessAll(e, ids) ==
    IF ids = {} THEN e
    ELSE LET page_id == CHOOSE i \in ids : \A j \in ids : i <= j
             touched == OnPageAccessed(e, page_id)
         IN  IF touched.aborted THEN touched
             ELSE AccessAll(touched, ids \ {page_id})

\* the access_page loop over the first HotFrames frames
PressureAccess ==
    /\ ~mglru.aborted /\ mtx = "none"
    /\ drive.phase = "access"
    /\ mglru' = AccessAll(mglru, 0..(HotFrames - 1))
    /\ drive' = [drive EXCEPT !.phase = "reclaim"]
    /\ UNCHANGED <<result, scan_in, accessed, mvars>>

\* one reclaim round: direct_reclaim(10)
PressureReclaim ==
    \E b \in BuildsOf(mglru) :
        LET out == ScanAndReclaim(As(mglru, b), drive.budget)
        IN  /\ ~mglru.aborted /\ mtx = "none"
            /\ drive.phase = "reclaim"
            /\ SkewOK(out.e)
            /\ mglru' = Settle(mglru, out.e)
            /\ free_list' = AddEvicted(free_list, out.result.evicted_pages)
            /\ in_use' = in_use \ Range(out.result.evicted_pages)
            /\ drive' = [drive EXCEPT
                            !.calls = @ + 1,
                            !.evicted_log = @ \o out.result.evicted_pages,
                            !.phase = IF drive.calls + 1 = PressureRounds
                                      THEN "done" ELSE "access"]
            /\ UNCHANGED <<result, scan_in, accessed, capacity, mtx, stop_thread, pc, ret,
                           kswapd, joined>>

\* the rest of a background pass after lock.unlock(), taken in one step:
\* scan_and_reclaim(target_reclaim), lock.lock() and the evicted frames'
\* return to the free list (manager.cpp:117-123), in the schedules in which
\* the test thread does not run in between
PressureBgPass ==
    \E b \in BuildsOf(mglru) :
        LET out == ScanAndReclaim(As(mglru, b), kswapd.target_reclaim)
        IN  /\ ~mglru.aborted /\ mtx = "none" /\ kswapd.pc = "scan"
            /\ SkewOK(out.e)
            /\ mglru' = Settle(mglru, out.e)
            /\ free_list' = AddEvicted(free_list, out.result.evicted_pages)
            /\ in_use' = in_use \ Range(out.result.evicted_pages)
            /\ kswapd' = KswapdAt("lock")
            /\ UNCHANGED <<evars, capacity, mtx, stop_thread, pc, ret, joined>>

NextPressure ==
    \/ \E c \in Callers : PressureAllocate(c)
    \/ PressureAccess
    \/ PressureReclaim
    \/ BgEnter
    \/ PressureBgPass

SpecPressure == InitPressure /\ [][NextPressure]_vars

(***************************************************************************)
(* Claims about the engine                                                 *)
(***************************************************************************)
NodesOf(e, page_id) ==
    {<<g, k>> \in {<<g, k>> \in (DOMAIN e.generations) \X (1..Cardinality(AllNodes(e))) :
                      k <= Len(e.generations[g].pages)} :
        e.generations[g].pages[k].id = page_id}

\* C5: the metadata table's key set equals the union of the generations'
\* contents, every resident id occurs exactly once across all generations,
\* and its metadata names the generation (and the node) that holds it.
C5_Bookkeeping ==
    /\ Resident(mglru) = {n.id : n \in AllNodes(mglru)}
    /\ \A page_id \in Resident(mglru) :
        /\ Cardinality(NodesOf(mglru, page_id)) = 1
        /\ \A pos \in NodesOf(mglru, page_id) :
            /\ mglru.page_table[page_id].generation_index = pos[1]
            /\ mglru.page_table[page_id].lru_iterator
                   = mglru.generations[pos[1]].pages[pos[2]].it
            /\ mglru.page_table[page_id].id = page_id

\* C5 witness: a scan promoted a frame while frames sit in two generations
C5_Witness ==
    /\ result.promoted_pages_count >= 1
    /\ Len(result.evicted_pages) >= 1
    /\ \E p, q \in Resident(mglru) :
        mglru.page_table[p].generation_index # mglru.page_table[q].generation_index

NoDuplicates(s) == \A i, j \in 1..Len(s) : s[i] = s[j] => i = j

\* C6: a population that is added to a fresh engine and never accessed is
\* evicted entirely by (N - 1) + ceil(P / b) scan_and_reclaim(b) calls, and
\* the evicted_pages of all calls together hold each of its ids once and no
\* other id.
C6_ColdAllEvicted ==
    /\ NoDuplicates(drive.evicted_log)
    /\ Range(drive.evicted_log) \subseteq drive.population
    /\ drive.calls >= ColdCalls =>
        /\ Resident(mglru) = {}
        /\ AllNodes(mglru) = {}
        /\ Range(drive.evicted_log) = drive.population

\* C6 witness: the last of the allowed calls evicted the last of three frames
C6_Witness ==
    /\ drive.calls = ColdCalls
    /\ Cardinality(drive.population) = 3
    /\ mglru.max_generations >= 2
    /\ drive.budget = 2
    /\ Len(result.evicted_pages) = 1
    /\ Len(drive.evicted_log) = 3

\* C7: a single frame that is accessed before every scan_and_reclaim call is
\* in no call's evicted_pages and is resident after every call.
C7_HotSurvives ==
    \A f \in drive.population :
        /\ f \in Resident(mglru)
        /\ f \notin Range(drive.evicted_log)
        /\ f \notin Range(result.evicted_pages)

\* C7 witness: a scan examined the frame in the oldest of several generations
\* and promoted it
C7_Witness ==
    /\ drive.phase = "access"
    /\ drive.population # {}
    /\ mglru.max_generations >= 2
    /\ result.scanned_pages_count = 1
    /\ result.promoted_pages_count = 1

\* the frames examined before position k of a scan that share the bit of the
\* frame examined at k
AliasExaminedBefore(k) ==
    \E j \in 1..(k - 1) :
        BitOf(scan_in.pages_to_process[j]) = BitOf(scan_in.pages_to_process[k])

Survived(page_id) ==
    page_id \in Resident(mglru) /\ page_id \notin Range(result.evicted_pages)

\* C8 as claimed: a frame of the oldest generation that was accessed since the
\* previous scan returned is promoted, not evicted, by the scan that examines
\* it, also when a frame sharing its tracker bit is examined earlier in that
\* scan.
C8_NoFalseNegative ==
    \A k \in 1..Len(scan_in.pages_to_process) :
        scan_in.pages_to_process[k] \in scan_in.accessed
            => Survived(scan_in.pages_to_process[k])

\* C8 amended: such a frame is promoted, not evicted, exactly when no frame
\* sharing its tracker bit is examined earlier in the same scan; when one is,
\* the first of them consumes the bit and the accessed frame is evicted.
C8_NoFalseNegativeUnlessAliasFirst ==
    \A k \in 1..Len(scan_in.pages_to_process) :
        scan_in.pages_to_process[k] \in scan_in.accessed
            => (Survived(scan_in.pages_to_process[k]) <=> ~AliasExaminedBefore(k))

\* C8 witness: two frames sharing a bit were examined; the one examined first
\* had been accessed and was promoted, the other was evicted
C8_Witness ==
    /\ Len(scan_in.pages_to_process) >= 2
    /\ AliasExaminedBefore(2)
    /\ scan_in.pages_to_process[1] \in scan_in.accessed
    /\ scan_in.pages_to_process[2] \notin scan_in.accessed
    /\ Survived(scan_in.pages_to_process[1])
    /\ scan_in.pages_to_process[2] \in Range(result.evicted_pages)
    /\ result.promoted_pages_count = 1

(***************************************************************************)
(* Claims about the frame allocator                                        *)
(***************************************************************************)
FreeIds == Range(free_list)

ResidentIds(e) == Resident(e) \cup {n.id : n \in AllNodes(e)}

\* C1: no frame id is both in the free list and resident in the engine (in
\* the metadata table or in a generation), whatever the interleaving.
C1_FreeNotResident == FreeIds \cap ResidentIds(mglru) = {}

\* C2: whenever no thread holds the allocator mutex, the length of the free
\* list plus the number of ids in the metadata table is the capacity.
C2_Conservation ==
    mtx = "none" => Len(free_list) + Cardinality(Resident(mglru)) = capacity

\* an allocate_page call of caller c returns in this step
AllocateReturns(c) == AllocateFast(c) \/ AllocateRelock(c)

\* C3: allocate_page never returns an id that is in use, that is, one an
\* earlier allocate_page returned and that was since neither passed to
\* free_page nor evicted by a reclaim pass.
C3_NeverReturnsInUse ==
    [][\A c \in Callers :
          (AllocateReturns(c) /\ ret'[c].value # None) => ret'[c].value[1] \notin in_use]_vars

\* a caller runs on_page_added, on_page_accessed or a direct reclaim in this step
CallerEngineStep ==
    \E c \in Callers :
        \/ AllocateReturns(c) /\ ret'[c].value # None
        \/ DirectReclaim(c)
        \/ \E page_id \in CallerIds : AccessPage(c, page_id)

\* C4: every call into the engine runs under the allocator mutex, so no
\* engine call of a caller thread falls between two steps of a
\* scan_and_reclaim that runs in the background thread.
C4_MutualExclusion == [][kswapd.pc = "process" => ~CallerEngineStep]_vars

\* C9: free_page on an id the engine does not track changes neither the free
\* list nor the metadata table nor any generation.
C9_FreeUntrackedIsNoOp ==
    [][\A c \in Callers, page_id \in CallerIds :
          (FreePage(c, page_id) /\ page_id \notin ResidentIds(mglru))
              => (free_list' = free_list /\ mglru' = mglru)]_vars

\* C10: allocate_page returns none only when the free list was empty on
\* entry, one direct_reclaim ran in the same call and the free list is still
\* empty after it; in every other case it returns the id at the front of
\* the free list, removes exactly that entry, and leaves the id resident in
\* generation 0 with generation_index 0.
C10_AllocateResult ==
    [][\A c \in Callers :
          /\ (pc[c] = "idle" /\ pc'[c] = "direct_reclaim") => free_list = <<>>
          /\ (pc[c] # "relock" /\ pc'[c] = "relock") => DirectReclaim(c)
          /\ AllocateReturns(c) =>
                IF ret'[c].value = None
                THEN /\ pc[c] = "relock"
                     /\ free_list = <<>> /\ free_list' = <<>>
                     /\ mglru' = mglru
                ELSE LET page_id == ret'[c].value[1]
                     IN  /\ free_list # <<>>
                         /\ page_id = Head(free_list)
                         /\ free_list' = Tail(free_list)
                         /\ page_id \in Resident(mglru')
                         /\ mglru'.page_table[page_id].generation_index = 0
                         /\ mglru'.generations[0].pages # <<>>
                         /\ Head(mglru'.generations[0].pages) =
                                [id |-> page_id,
                                 it |-> mglru'.page_table[page_id].lru_iterator]]_vars

\* C10 witness: an allocate_page call found the free list empty, reclaimed
\* nothing and returned none
C10_Witness ==
    \E c \in Callers :
        /\ ret[c] = Returned(None) /\ pc[c] = "idle"
        /\ free_list = <<>>
        /\ Cardinality(Resident(mglru)) >= 1

(***************************************************************************)
(* Claims about single operations                                          *)
(***************************************************************************)
\* on_page_accessed(page_id) is called in this step, by a direct caller of
\* the engine or through access_page
AccessCall(page_id) ==
    \/ \E c \in Callers : AccessPage(c, page_id)
    \/ EngineAccess(page_id) /\ UNCHANGED <<drive, mvars>>

\* C11: on_page_accessed / access_page never moves a frame: the lists, the
\* metadata table and the free list are unchanged; for a resident id the one
\* change is its bit, set in the tracker of the generation its metadata
\* names; for an id that is not resident nothing changes.
C11_AccessMovesNothing ==
    [][\A page_id \in CallerIds \cup EnginePageIds :
          AccessCall(page_id) =>
            /\ free_list' = free_list
            /\ mglru'.page_table = mglru.page_table
            /\ \A g \in DOMAIN mglru.generations :
                  /\ mglru'.generations[g].pages = mglru.generations[g].pages
                  /\ mglru'.generations[g].size = mglru.generations[g].size
            /\ IF page_id \in Resident(mglru)
               THEN LET gen_idx == mglru.page_table[page_id].generation_index
                    IN  \A g \in DOMAIN mglru.generations :
                            mglru'.generations[g].bitset =
                                IF g = gen_idx
                                THEN mglru.generations[g].bitset \cup {BitOf(page_id)}
                                ELSE mglru.generations[g].bitset
               ELSE mglru' = mglru]_vars

\* C11 witness: access_page set the bit of a frame that sits in generation 1,
\* below another frame of that generation
C11_Witness ==
    /\ capacity > 0
    /\ \A c \in Callers : ret[c] = NoReturn
    /\ \E page_id \in Resident(mglru) :
          /\ mglru.page_table[page_id].generation_index = 1
          /\ BitOf(page_id) \in mglru.generations[1].bitset
          /\ BitOf(page_id) \notin mglru.generations[0].bitset
          /\ Len(mglru.generations[1].pages) >= 2
          /\ Head(mglru.generations[1].pages).id # page_id

\* the frames of generation g, as a set of ids
IdsIn(e, g) == {n.id : n \in Range(e.generations[g].pages)}

\* the first aging of C12: generation 0 is emptied into generation 1 and its
\* tracker is cleared
AgeFirstMovesToOne ==
    (mglru.max_generations >= 2 /\ OnlyPopulated(mglru, 0)) =>
        /\ mglru'.generations[0].pages = <<>>
        /\ mglru'.generations[0].bitset = {}
        /\ OnlyPopulated(mglru', 1)
        /\ IdsIn(mglru', 1) = IdsIn(mglru, 0)
        /\ Resident(mglru') = Resident(mglru)
        /\ \A page_id \in Resident(mglru') :
              mglru'.page_table[page_id].generation_index = 1

\* no frame changes generation and no metadata changes
AgeMovesNothing ==
    /\ mglru'.page_table = mglru.page_table
    /\ \A g \in DOMAIN mglru.generations :
          mglru'.generations[g].pages = mglru.generations[g].pages

\* C12 as stated: with N >= 2 and only generation 0 populated, one
\* age_generations() moves generation 0's frames to generation 1 and leaves
\* generation 0 empty with a cleared tracker; calling it again is a no-op.
C12_AgeIdempotent ==
    [][EngineAge => /\ AgeFirstMovesToOne
                    /\ drive.phase = "aged" => AgeMovesNothing]_vars

\* C12 amended: the first call is as stated; the call that follows is a
\* no-op exactly when N = 2, and with N >= 3 it moves the frames on from
\* generation 1 to generation 2 and updates their metadata.
C12_AgeIdempotentOnlyForTwo ==
    [][EngineAge =>
          /\ AgeFirstMovesToOne
          /\ (drive.phase = "aged" /\ mglru.max_generations = 2) => AgeMovesNothing
          /\ (drive.phase = "aged" /\ mglru.max_generations >= 3) =>
                /\ ~AgeMovesNothing
                /\ OnlyPopulated(mglru', 2)
                /\ IdsIn(mglru', 2) = IdsIn(mglru, 1)
                /\ \A page_id \in Resident(mglru') :
                      mglru'.page_table[page_id].generation_index = 2]_vars

\* C12 witness: the second of two age_generations() calls in a row has run
\* on an engine of three generations, and the frames are in generation 2
C12_Witness ==
    /\ drive.phase = "again"
    /\ mglru.max_generations = 3
    /\ Cardinality(IdsIn(mglru, 2)) >= 2
    /\ OnlyPopulated(mglru, 2)

BgCut ==
    /\ ~mglru.aborted
    /\ \/ /\ kswapd.pc = "scan"
          /\ \A b \in BuildsOf(mglru) :
                /\ ListEmpty(As(mglru, b), mglru.max_generations - 1)
                /\ ~SkewOK(AgeGenerations(As(mglru, b)))
       \/ /\ kswapd.pc = "process" /\ kswapd.pages_to_process # <<>>
          /\ \A b \in BuildsOf(mglru) :
                ~SkewOK(ProcessPage([e |-> As(mglru, b), result |-> kswapd.result],
                                    Head(kswapd.pages_to_process)).e)
       \/ /\ kswapd.pc = "process" /\ kswapd.pages_to_process = <<>>
          /\ \A b \in BuildsOf(mglru) :
                ~SkewOK(ScanFinish([e |-> As(mglru, b), result |-> kswapd.result],
                                   kswapd.scanned, kswapd.target_reclaim).e)

\* C14: once the stop flag is set and the condition variable notified, the
\* background thread eventually leaves its loop, from the wait as well as
\* from the middle of a reclaim pass; no reclaim pass starts once the flag
\* is set; and the join has returned only if the thread has left the loop.
C14_Shutdown ==
    /\ stop_thread ~> (kswapd.pc = "exited" \/ BgCut)
    /\ [][stop_thread => ~(kswapd.pc # "scan" /\ kswapd'.pc = "scan")]_vars
    /\ [](joined => kswapd.pc = "exited")

(***************************************************************************)
(* Claims about numbers                                                    *)
(***************************************************************************)
\* get_memory_usage() is a value in [0, 1]: used = capacity_ - free_list_.size()
\* has not wrapped and is at most capacity_
UsageInUnitInterval == Used(free_list) >= 0 /\ Used(free_list) <= capacity

\* C15: in every reachable state 0 <= free_count <= capacity, the free list
\* holds no id twice, and get_memory_usage() = (capacity - free_count) /
\* capacity is in [0, 1]; an allocation that needs no reclaim raises the
\* numerator by one, so that k of them on a fresh allocator give k / capacity.
C15_FreeCountBounded ==
    /\ [](/\ Len(free_list) <= capacity
          /\ NoDuplicates(free_list)
          /\ UsageInUnitInterval)
    /\ [][\A c \in Callers :
            AllocateFast(c) => Used(free_list') = Used(free_list) + 1]_vars

(***************************************************************************)
(* Claims about the access tracker                                         *)
(***************************************************************************)
\* C16: the tracker is a bitmap keyed by id modulo 64 * N (N words, N a
\* power of two, bit = id mod 64, word = (id / 64) mod N):
\* check_and_clear(a) returns true iff a set(b) with b congruent to a
\* happened after the last clear() and after the last check_and_clear of an
\* id congruent to a; a check_and_clear right after it returns false; on a
\* fresh tracker and after clear() every check_and_clear returns false; and
\* check_and_clear(a) leaves the bit of every id not congruent to a as it was.
C16_TrackerIsBitmap ==
    [][\A a \in TrackerIdsOf(drive.size) :
          TrackerCheckCall(a) =>
            /\ SlotOf(drive.tracker, a) =
                    <<(a \div WordBits) % drive.size, a % WordBits>>
            /\ drive'.value = (\E b \in drive.pending : Congruent(a, b, drive.size))
            /\ (drive.phase = "check_and_clear" /\ Congruent(a, drive.page_id, drive.size))
                    => ~drive'.value
            /\ drive.phase \in {"fresh", "clear"} => ~drive'.value
            /\ \A c \in TrackerIdsOf(drive.size) :
                  ~Congruent(a, c, drive.size) =>
                      (SlotOf(drive.tracker, c) \in drive'.tracker.bitset)
                          = (SlotOf(drive.tracker, c) \in drive.tracker.bitset)]_vars

\* C16 witness: on a tracker of 64 words, check_and_clear(0) returned true
\* and cleared the bit, and the bit of id 1, in the same word, stayed set
C16_Witness ==
    /\ drive.phase = "check_and_clear"
    /\ drive.size = TrackerSize
    /\ drive.page_id = 0
    /\ drive.value
    /\ drive.pending = {1}
    /\ drive.tracker.bitset = {<<0, 1>>}

(***************************************************************************)
(* Claims about a generation                                               *)
(***************************************************************************)
Reverse(seq) == [k \in 1..Len(seq) |-> seq[Len(seq) + 1 - k]]

\* seq without its k-th element
Without(seq, k) == SubSeq(seq, 1, k - 1) \o SubSeq(seq, k + 1, Len(seq))

\* C17: a Generation keeps frames newest first and its handles are stable:
\* add_page(id) inserts id at the head, so the ids added to a fresh
\* generation read from the head in reverse order of the calls;
\* remove_page(h) removes exactly the element add_page returned h for,
\* whatever add_page and remove_page calls came in between, and leaves the
\* order of the other elements as it was.
C17_GenerationHandles ==
    /\ [](drive.removes = 0 => PageIdsOf(drive.gen.pages) = Reverse(drive.added))
    /\ [][\A page_id \in GenerationPageIds :
            GenAddCall(page_id) =>
                /\ Tail(drive'.gen.pages) = drive.gen.pages
                /\ Head(drive'.gen.pages).id = page_id
                /\ Head(drive'.gen.pages).it = drive'.it
                /\ drive'.it \notin DOMAIN drive.handles]_vars
    /\ [][\A it \in DOMAIN drive.handles :
            GenRemoveCall(it) =>
                \E k \in 1..Len(drive.gen.pages) :
                    /\ drive.gen.pages[k] = [id |-> drive.handles[it], it |-> it]
                    /\ drive'.gen.pages = Without(drive.gen.pages, k)
                    /\ drive'.gen.size = Len(drive'.gen.pages)]_vars

\* C17 witness: remove_page took the middle one of three elements, the two
\* others holding the same id, after four add_page calls and one earlier
\* remove_page
C17_Witness ==
    /\ drive.phase = "remove_page"
    /\ drive.position = 2
    /\ drive.removes = 2
    /\ Len(drive.added) = MaxAdds
    /\ Len(drive.gen.pages) = 2
    /\ drive.gen.pages[1].id = drive.gen.pages[2].id

(***************************************************************************)
(* Claims about the scan intensity controller                              *)
(***************************************************************************)
\* C18: with gains 0.1, 0.01, 0.05, get_scan_intensity() returns a value in
\* [1, 1024] in the initial state and after every sequence of
\* update_metrics calls with non-negative arguments, reclaimed = 0
\* included, and the integral stays within [-100, 100].
C18_IntensityInRange ==
    /\ [](/\ drive.controller.integral >= -IntegralLimit * ErrorUnit
          /\ drive.controller.integral <= IntegralLimit * ErrorUnit)
    /\ [][PidRead =>
            /\ drive'.phase = "get_scan_intensity"
            /\ drive'.intensity >= MinIntensity
            /\ drive'.intensity <= MaxIntensity]_vars

\* C19: intensity follows the refault ratio downward: after
\* update_metrics(10, 100, 5) and update_metrics(0, 100, 50) on a fresh
\* controller the second intensity is not higher than the first, and for
\* any two consecutive update_metrics calls of which the second has a
\* refault ratio not higher than the first, the intensity read after the
\* second is not higher than the intensity read after the first.
C19_IntensityFollowsRatio ==
    (/\ drive.before.intensity # 0
     /\ drive.last.intensity # 0
     /\ drive.last.error <= drive.before.error)
        => drive.last.intensity <= drive.before.intensity

(***************************************************************************)
(* Claims about aging                                                      *)
(***************************************************************************)
\* the generation a frame of generation g is in after one aging
AgedIndex(e, g) == IF g < e.max_generations - 1 THEN g + 1 ELSE g

\* nodes in all generations together
NodeCount(e) == Cardinality(AllNodes(e))

\* `after` is `before` with every frame of a generation below the oldest one
\* generation older, the oldest generation's frames still in it, nothing
\* evicted and no tracker bit set
AgedByOne(before, after) ==
    /\ ~after.aborted
    /\ Resident(after) = Resident(before)
    /\ NodeCount(after) = NodeCount(before)
    /\ \A g \in DOMAIN before.generations :
          /\ \A page_id \in IdsIn(before, g) :
                /\ page_id \in IdsIn(after, AgedIndex(before, g))
                /\ page_id \in Resident(after)
                /\ after.page_table[page_id].generation_index = AgedIndex(before, g)
                /\ \A h \in DOMAIN before.generations :
                      h # AgedIndex(before, g) => page_id \notin IdsIn(after, h)
          /\ after.generations[g].bitset = {}

\* the background pass found the oldest generation empty and only aged
\* (mglru_core.cpp:50-54)
BgAge == BgScanBegin /\ kswapd'.pc = "relock"

\* C20: age_generations() on an engine of N generations moves every frame
\* that was in generation i < N - 1 to generation i + 1 exactly (none is
\* shifted across two generations in one call), leaves every frame of
\* generation N - 1 where it is, sets each moved frame's generation_index
\* to i + 1, evicts nothing, and leaves every tracker bit of every
\* generation, the oldest included, clear.
C20_AgeShiftsByOne ==
    [][(EngineAge \/ BgAge) => AgedByOne(mglru, mglru')]_vars

(***************************************************************************)
(* Claims about scan_and_reclaim.  A call is a step of a direct caller of  *)
(* the engine (EngineScan) or the critical section of direct_reclaim       *)
(* (DirectReclaim); what it returned is result' in the first case and the  *)
(* tail direct_reclaim appends to the free list in the second.             *)
(***************************************************************************)
ScanCall ==
    \/ \E pages_to_scan \in Budgets : EngineScan(pages_to_scan)
    \/ \E c \in Callers : DirectReclaim(c)

\* the budget of the call made in this step
ScanBudget == IF capacity = 0 THEN scan_in'.pages_to_scan ELSE DirectReclaimBudget

\* evicted_pages of the call made in this step
ScanEvicted ==
    IF capacity = 0 THEN result'.evicted_pages
    ELSE SubSeq(free_list', Len(free_list) + 1, Len(free_list'))

OldestIdx(e) == e.max_generations - 1

\* the frames the call of this step examines, in the order it examines them
ScanExamined ==
    IF ListEmpty(mglru, OldestIdx(mglru)) THEN <<>>
    ELSE CollectPages(mglru.generations[OldestIdx(mglru)].pages, ScanBudget)

\* the engine as the processing loop finds it when it comes to the k-th
\* examined frame
EngineBefore(k) ==
    ProcessPages([e |-> mglru, result |-> EmptyResult], SubSeq(ScanExamined, 1, k - 1)).e

\* C21: every id in evicted_pages of a scan_and_reclaim call was in the
\* oldest generation at the start of the call and in no younger one, its
\* tracker bit was clear when it was examined, and after the call it is
\* neither in the metadata table nor in any generation.
C21_EvictsColdOldest ==
    [][ScanCall =>
          \A page_id \in Range(ScanEvicted) :
              /\ page_id \in IdsIn(mglru, OldestIdx(mglru))
              /\ \A g \in DOMAIN mglru.generations :
                    g < OldestIdx(mglru) => page_id \notin IdsIn(mglru, g)
              /\ \E k \in 1..Len(ScanExamined) :
                    /\ ScanExamined[k] = page_id
                    /\ ~TrackerCheck(
                           EngineBefore(k).generations[OldestIdx(mglru)].bitset, page_id)
              /\ page_id \notin ResidentIds(mglru')]_vars

\* the oldest generation's sequence at the start of the call of this step
ScanPages == mglru.generations[OldestIdx(mglru)].pages

\* min(budget, size)
ScanCount == IF Len(ScanPages) < ScanBudget THEN Len(ScanPages) ELSE ScanBudget

\* the part of the sequence nearer the head than the ScanCount frames at the tail
ScanKept == SubSeq(ScanPages, 1, Len(ScanPages) - ScanCount)

\* C22: scan_and_reclaim(budget) examines exactly the min(budget, size)
\* frames nearest the tail of the oldest generation's sequence as it stood
\* at the start of the call, tail first: each of them is evicted or kept
\* according to its tracker bit at its turn, evicted_pages lists the evicted
\* ones in that order, and the frames nearer the head are left in the oldest
\* generation in their order, neither evicted nor promoted.
C22_ExaminesTailFirst ==
    [][ScanCall =>
          /\ capacity = 0 => result'.scanned_pages_count = ScanCount
          /\ Len(ScanExamined) = ScanCount
          /\ \A k \in 1..ScanCount :
                LET page_id == ScanPages[Len(ScanPages) + 1 - k].id
                    seen == TrackerCheck(
                                EngineBefore(k).generations[OldestIdx(mglru)].bitset, page_id)
                IN  /\ ScanExamined[k] = page_id
                    /\ seen <=> page_id \notin Range(ScanEvicted)
                    /\ seen <=> page_id \in Resident(mglru')
          /\ ScanEvicted = SelectSeq(ScanExamined, LAMBDA page_id : page_id \in Range(ScanEvicted))
          /\ SelectSeq(mglru'.generations[OldestIdx(mglru)].pages,
                       LAMBDA n : n.id \in {ScanKept[k].id : k \in 1..Len(ScanKept)})
                = ScanKept
          /\ \A k \in 1..Len(ScanKept) :
                /\ ScanKept[k].id \notin Range(ScanEvicted)
                /\ ScanKept[k].id \in Resident(mglru')
                /\ mglru'.page_table[ScanKept[k].id] = mglru.page_table[ScanKept[k].id]]_vars

\* the ReclaimResult of the call of this step: what the direct caller was
\* handed, or what scan_and_reclaim handed direct_reclaim
ScanResults ==
    IF capacity = 0 THEN {result'}
    ELSE {out.result :
            out \in {o \in {ScanAndReclaim(As(mglru, b), ScanBudget) : b \in BuildsOf(mglru)} :
                        /\ Settle(mglru, o.e) = mglru'
                        /\ o.result.evicted_pages = ScanEvicted}}

\* C23: for a scan_and_reclaim(budget) call on an engine that satisfies the
\* bookkeeping invariant, scanned_pages_count is min(budget, size of the
\* oldest generation at the start) and at most budget, it is the number of
\* evicted ids plus promoted_pages_count, and evicted_pages holds no id twice.
C23_Accounting ==
    [][(ScanCall /\ C5_Bookkeeping) =>
          \A res \in ScanResults :
              /\ res.scanned_pages_count = ScanCount
              /\ res.scanned_pages_count <= ScanBudget
              /\ res.scanned_pages_count
                    = Len(res.evicted_pages) + res.promoted_pages_count
              /\ NoDuplicates(res.evicted_pages)]_vars

\* the engines one age_generations() call may leave behind
AgedOnce == {Settle(mglru, AgeGenerations(As(mglru, b))) : b \in BuildsOf(mglru)}

\* C24: when the oldest generation is empty at the start of
\* scan_and_reclaim(budget), on an empty engine too, the call returns
\* scanned_pages_count = 0, promoted_pages_count = 0 and no evicted id, it
\* evicts and promotes nothing, and what it does to the engine is exactly one
\* age_generations() step.
C24_EmptyOldestOnlyAges ==
    [][(ScanCall /\ ScanPages = <<>>) =>
          /\ ScanResults = {EmptyResult}
          /\ ScanEvicted = <<>>
          /\ Resident(mglru') = Resident(mglru)
          /\ \A page_id \in Resident(mglru) :
                mglru'.page_table[page_id].generation_index
                    >= mglru.page_table[page_id].generation_index
          /\ mglru' \in AgedOnce]_vars

\* the k-th examined frame was moved by the processing loop from the oldest
\* generation to the next younger one
MovedYounger(k) ==
    LET page_id == ScanExamined[k]
        before == EngineBefore(k)
        after == EngineBefore(k + 1)
    IN  /\ OldestIdx(mglru) >= 1
        /\ ~after.aborted
        /\ page_id \in Resident(before) /\ page_id \in Resident(after)
        /\ before.page_table[page_id].generation_index = OldestIdx(mglru)
        /\ after.page_table[page_id].generation_index = OldestIdx(mglru) - 1
        /\ page_id \in IdsIn(after, OldestIdx(mglru) - 1)
        /\ page_id \notin IdsIn(after, OldestIdx(mglru))

\* C25: promoted_pages_count of a scan_and_reclaim call is the number of
\* frames the call moved from the oldest generation to generation N-2; with
\* N = 1 an accessed frame stays where it is and is not counted
C25_PromotedCount ==
    [][ScanCall =>
          \A res \in ScanResults :
              res.promoted_pages_count =
                  Cardinality({k \in 1..Len(ScanExamined) : MovedYounger(k)})]_vars

\* the engine when the processing loop of the call has ended, for each build
\* the call may have run as
ScanProcessed ==
    {ProcessPages([e |-> As(mglru, b), result |-> EmptyResult], ScanExamined).e :
        b \in BuildsOf(mglru)}

\* frames left in the oldest generation of e
Remaining(e) == Len(e.generations[OldestIdx(e)].pages)

\* the refill: one age_generations() when fewer than budget/4 frames are left
Refill(e, budget) ==
    IF Remaining(e) < budget \div 4 THEN AgeGenerations(e) ELSE e

\* C26: a scan_and_reclaim(budget) call that found the oldest generation
\* non-empty ends with exactly one age_generations() when the oldest
\* generation is left with fewer than budget/4 frames after the examined
\* frames were promoted or evicted, and with no aging otherwise
C26_RefillCondition ==
    [][(ScanCall /\ ScanPages # <<>> /\ ~ListEmpty(mglru, OldestIdx(mglru))) =>
          mglru' \in {Settle(mglru, Refill(e, ScanBudget)) : e \in ScanProcessed}]_vars

\* C27: for budget >= 1 and N >= 2, a scan_and_reclaim(budget) call that
\* examined a frame, left the oldest generation with fewer than budget/4
\* frames and returns with a frame still resident returns with the oldest
\* generation non-empty, so that the next call examines at least one frame
C27_RefillLeavesMaterial ==
    [][(/\ ScanCall
        /\ ScanBudget >= 1
        /\ mglru.max_generations >= 2
        /\ ScanExamined # <<>>
        /\ \E e \in ScanProcessed : ~e.aborted /\ Remaining(e) < ScanBudget \div 4
        /\ ~mglru'.aborted
        /\ Resident(mglru') # {}) =>
          /\ mglru'.generations[OldestIdx(mglru)].pages # <<>>
          /\ \A pages_to_scan \in Budgets, b \in BuildsOf(mglru') :
                ScanAndReclaim(As(mglru', b), pages_to_scan).result.scanned_pages_count >= 1]_vars

(***************************************************************************)
(* Claims about the background reclaim thread                              *)
(***************************************************************************)
\* the background thread is inside a reclaim pass
InPass(k) == k.pc \in {"scan", "process", "relock", "fold"}

\* this step starts a background reclaim pass
PassStarts == ~InPass(kswapd) /\ InPass(kswapd')

\* C28: a background reclaim pass starts only in a critical section that
\* finds the stop flag clear and used = capacity - free_count above
\* high_watermark = floor(0.90 * capacity); its budget is used minus
\* low_watermark = floor(0.70 * capacity) as computed there, and the pass
\* examines, evicts and hands to the free list at most that many frames
C28_PassBudget ==
    [][/\ PassStarts =>
            /\ mtx = "none" /\ mtx' = "none"
            /\ ~stop_thread
            /\ HighWatermark = (9 * capacity) \div 10
            /\ MinWatermark = (7 * capacity) \div 10
            /\ Used(free_list) > HighWatermark
            /\ kswapd'.target_reclaim = Used(free_list) - MinWatermark
       /\ InPass(kswapd') =>
            /\ kswapd'.target_reclaim = IF InPass(kswapd) THEN kswapd.target_reclaim
                                        ELSE Used(free_list) - MinWatermark
            /\ Len(kswapd'.pages_to_process) <= kswapd'.target_reclaim
            /\ kswapd'.scanned <= kswapd'.target_reclaim
            /\ Len(kswapd'.result.evicted_pages) + Len(kswapd'.pages_to_process)
                   <= kswapd'.target_reclaim
       /\ BgFold =>
            /\ Len(free_list') - Len(free_list) <= kswapd.target_reclaim
            /\ free_list' = free_list \o kswapd.result.evicted_pages]_vars

(***************************************************************************)
(* SpecRelief: the MemoryManager of SpecLive whose callers and owner fall  *)
(* silent for good at some moment after an allocate_page call has returned *)
(* a frame and left used above the high watermark.  drive.phase records    *)
(* that the silence has begun; the background thread is scheduled fairly.  *)
(***************************************************************************)
Quiet == drive.phase = "quiet"

\* the last call any caller made was an allocate_page that returned a frame,
\* and used is above the high watermark
AllocatedAboveHigh ==
    /\ \A c \in Callers : pc[c] = "idle" /\ ret[c].call = "allocate_page" /\ ret[c].value # None
    /\ Used(free_list) > HighWatermark

GoQuiet ==
    /\ ~Quiet /\ ~stop_thread
    /\ AllocatedAboveHigh
    /\ drive' = [drive EXCEPT !.phase = "quiet"]
    /\ UNCHANGED <<mglru, result, scan_in, accessed, mvars>>

NextRelief ==
    \/ ~Quiet /\ \E c \in Callers : AllocateFast(c)
    \/ ~Quiet /\ \E c \in Callers : AllocateUnlock(c)
    \/ ~Quiet /\ \E c \in Callers : DirectReclaim(c)
    \/ ~Quiet /\ \E c \in Callers : AllocateRelock(c)
    \/ ~Quiet /\ \E c \in Callers, page_id \in CallerIds : AccessPage(c, page_id)
    \/ ~Quiet /\ Shutdown
    \/ GoQuiet
    \/ BgEnter
    \/ BgSpuriousWake
    \/ BgScanBegin
    \/ BgProcess
    \/ BgFinish
    \/ BgRelock
    \/ BgFold
    \/ Join

SpecRelief == Init /\ [][NextRelief]_vars /\ WF_vars(BgStep)

\* the pressure is relieved and the background thread is in cv_.wait
Relieved == Used(free_list) <= HighWatermark /\ kswapd.pc = "waiting"

\* C29: without free_page calls, once an allocate_page call has left used
\* above the high watermark and no further call or shutdown follows, a
\* fairly scheduled background thread brings used down to the high watermark
\* or below and is then blocked in its wait
C29_PressureRelieved == Quiet ~> Relieved

(***************************************************************************)
(* SpecWatermark: a MemoryManager of WatermarkCapacity frames, the         *)
(* smallest pool whose two watermarks differ (3 and 2 of 4 frames).  The   *)
(* caller allocates while the free list has frames and accesses frames;    *)
(* the owner does not shut down.  drive.calls counts the reclaim passes    *)
(* the background thread has ended since it last entered its wait.         *)
(***************************************************************************)
WatermarkCapacity == 4

InitWatermark ==
    /\ mglru = NewMGLRU(ManagerGenerations)
    /\ result = EmptyResult
    /\ scan_in = NoScan
    /\ accessed = {}
    /\ drive = NoDrive
    /\ capacity = WatermarkCapacity
    /\ free_list = [i \in 1..WatermarkCapacity |-> i - 1]
    /\ mtx = "none"
    /\ stop_thread = FALSE
    /\ pc = [c \in Callers |-> "idle"]
    /\ ret = [c \in Callers |-> NoReturn]
    /\ kswapd = KswapdAt("lock")
    /\ joined = FALSE
    /\ in_use = {}

\* reclaimed_loop from the top of the loop to the wait, the break or
\* lock.unlock() (manager.cpp:96-114), as BgEnter; entering the wait ends
\* the count of passes
WatermarkEnter ==
    LET used == Used(free_list)
    IN  /\ ~mglru.aborted /\ mtx = "none" /\ kswapd.pc = "lock"
        /\ kswapd' =
            IF ~(stop_thread \/ UGreater(used, HighWatermark))
            THEN [kswapd EXCEPT !.pc = "waiting"]
            ELSE IF stop_thread THEN [kswapd EXCEPT !.pc = "exited"]
            ELSE IF UGreater(used, MinWatermark)
            THEN [kswapd EXCEPT !.pc = "scan", !.target_reclaim = used - MinWatermark]
            ELSE [kswapd EXCEPT !.pc = "lock"]
        /\ drive' = IF kswapd'.pc = "waiting" THEN [drive EXCEPT !.calls = 0] ELSE drive
        /\ UNCHANGED <<result, scan_in, accessed, capacity, mglru, free_list, mtx,
                       stop_thread, pc, ret, joined, in_use>>

\* the end of a pass (manager.cpp:121-125), as BgFold; the pass is counted
WatermarkFold ==
    /\ ~mglru.aborted /\ mtx = "kswapd" /\ kswapd.pc = "fold"
    /\ free_list' = AddEvicted(free_list, kswapd.result.evicted_pages)
    /\ mtx' = "none"
    /\ kswapd' = KswapdAt("lock")
    /\ drive' = [drive EXCEPT !.calls = 1]
    /\ UNCHANGED <<result, scan_in, accessed, capacity, mglru, stop_thread, pc, ret,
                   joined, in_use>>

NextWatermark ==
    \/ \E c \in Callers : AllocateFast(c)
    \/ \E c \in Callers, page_id \in CallerIds : AccessPage(c, page_id)
    \/ WatermarkEnter
    \/ BgSpuriousWake
    \/ BgScanBegin
    \/ BgProcess
    \/ BgFinish
    \/ BgRelock
    \/ WatermarkFold

SpecWatermark == InitWatermark /\ [][NextWatermark]_vars

\* C30: when the background thread goes back into its wait after one
\* reclaim pass or more, with no shutdown requested, used is at most
\* min_watermark
C30_ReclaimsToMinWatermark ==
    [][(/\ kswapd.pc # "waiting" /\ kswapd'.pc = "waiting"
        /\ drive.calls >= 1
        /\ ~stop_thread) =>
          Used(free_list') <= MinWatermark]_vars

(***************************************************************************)
(* Claims about the fold of a background pass                              *)
(***************************************************************************)
\* how often page_id occurs in seq
Occurrences(seq, page_id) == Cardinality({k \in 1..Len(seq) : seq[k] = page_id})

ConventionalOutput(c, e, e_prev) == c.Kp * e + c.Ki * c.integral + c.Kd * (e - e_prev)

\* clamp(32 + max(0, 10 * output), 1, 1024), the adjustment truncated
ConventionalIntensity(c, e, e_prev) ==
    LET output == ConventionalOutput(c, e, e_prev)
        adjustment == IF output <= 0 THEN 0
                      ELSE output \div ((100 * ErrorUnit) \div AdjustmentFactor)
    IN  Clamp(BaseIntensity + adjustment, MinIntensity, MaxIntensity)

\* C32: after an update_metrics call that computed the error e, with the
\* previous error e_prev and the clamped integral I, get_scan_intensity()
\* returns clamp(32 + max(0, 10 * (Kp*e + Ki*I + Kd*(e - e_prev))), 1, 1024)
C32_ConventionalDerivative ==
    [][(PidRead /\ drive.calls >= 1) =>
          /\ drive'.phase = "get_scan_intensity"
          /\ drive'.intensity =
                ConventionalIntensity(drive.controller, drive.last.error,
                                      drive.before.error)]_vars

(***************************************************************************)
(* Claims about accesses and the next scan                                 *)
(***************************************************************************)
\* no two resident ids share a tracker bit
NoAliasing(e) ==
    \A p, q \in Resident(e) : p # q => BitOf(p) # BitOf(q)

\* the frames the engine holds in its oldest generation
InOldest(e) ==
    {page_id \in Resident(e) :
        /\ e.page_table[page_id].generation_index = OldestIdx(e)
        /\ page_id \in IdsIn(e, OldestIdx(e))}

(***************************************************************************)
(* SpecGuard: the MemoryManager of SpecLive without shutdown, with the     *)
(* accesses to frames of the oldest generation kept in drive: population   *)
(* holds the frames access_page was called for, while they were in the     *)
(* oldest generation and no scan_and_reclaim call was under way, since the *)
(* last call began; guarded holds what population held when the            *)
(* background thread's call began; empties counts the direct_reclaim       *)
(* passes in a row that were made with a frame resident and scanned        *)
(* nothing, the background thread examining no frame in between.           *)
(***************************************************************************)
\* the model stops following an engine after this many empty scans in a row
MaxEmptyScans == 4

NoGuard == [phase |-> "guard", calls |-> 0, budget |-> 0, population |-> {},
            evicted_log |-> <<>>, guarded |-> {}, empties |-> 0]

InitGuard ==
    /\ mglru = NewMGLRU(ManagerGenerations)
    /\ result = EmptyResult
    /\ scan_in = NoScan
    /\ accessed = {}
    /\ drive = NoGuard
    /\ capacity = Capacity
    /\ free_list = [i \in 1..Capacity |-> i - 1]
    /\ mtx = "none"
    /\ stop_thread = FALSE
    /\ pc = [c \in Callers |-> "idle"]
    /\ ret = [c \in Callers |-> NoReturn]
    /\ kswapd = KswapdAt("lock")
    /\ joined = FALSE
    /\ in_use = {}

\* access_page(page_id), as AccessPage
GuardAccess(c, page_id) ==
    /\ Alive /\ mtx = "none" /\ pc[c] = "idle"
    /\ mglru' = OnPageAccessed(mglru, page_id)
    /\ ret' = [ret EXCEPT ![c] = NoReturn]
    /\ drive' = IF kswapd.pc = "process" THEN drive
                ELSE [drive EXCEPT !.population = @ \cup ({page_id} \cap InOldest(mglru))]
    /\ UNCHANGED <<result, scan_in, accessed, capacity, free_list, mtx, stop_thread, pc,
                   kswapd, joined, in_use>>

\* direct_reclaim(10), as DirectReclaim: a whole scan_and_reclaim call
GuardDirectReclaim(c) ==
    \E b \in BuildsOf(mglru) :
        LET out == ScanAndReclaim(As(mglru, b), DirectReclaimBudget)
        IN  /\ ~mglru.aborted /\ mtx = "none" /\ pc[c] = "direct_reclaim"
            /\ SkewOK(out.e)
            /\ mglru' = Settle(mglru, out.e)
            /\ free_list' = AddEvicted(free_list, out.result.evicted_pages)
            /\ in_use' = in_use \ Range(out.result.evicted_pages)
            /\ pc' = [pc EXCEPT ![c] = "relock"]
            /\ drive.empties < MaxEmptyScans
            /\ drive' = [drive EXCEPT
                            !.population = {},
                            !.empties = IF out.e.aborted THEN @
                                        ELSE IF /\ Resident(mglru) # {}
                                                /\ out.result.scanned_pages_count = 0
                                        THEN @ + 1 ELSE 0]
            /\ UNCHANGED <<result, scan_in, accessed, capacity, mtx, stop_thread, ret,
                           kswapd, joined>>

\* the background thread's scan_and_reclaim call begins, as BgScanBegin
GuardScanBegin ==
    \E b \in BuildsOf(mglru) :
        LET e == As(mglru, b)
            oldest_idx == e.max_generations - 1
            pages_to_process ==
                CollectPages(e.generations[oldest_idx].pages, kswapd.target_reclaim)
        IN  /\ ~mglru.aborted /\ kswapd.pc = "scan"
            /\ mglru' = IF ListEmpty(e, oldest_idx)
                         THEN Settle(mglru, AgeGenerations(e))
                         ELSE mglru
            /\ kswapd' = IF ListEmpty(e, oldest_idx)
                          THEN [kswapd EXCEPT !.pc = "relock", !.result = EmptyResult]
                          ELSE [kswapd EXCEPT
                                    !.pc = "process",
                                    !.result = EmptyResult,
                                    !.scanned = Len(pages_to_process),
                                    !.pages_to_process = pages_to_process]
            /\ SkewOK(mglru')
            /\ drive' = [drive EXCEPT
                            !.guarded = drive.population,
                            !.population = {},
                            !.empties = IF pages_to_process = <<>> THEN @ ELSE 0]
            /\ UNCHANGED <<result, scan_in, accessed, capacity, free_list, mtx, stop_thread,
                           pc, ret, joined, in_use>>

NextGuard ==
    \/ \E c \in Callers : AllocateFast(c)
    \/ \E c \in Callers : AllocateUnlock(c)
    \/ \E c \in Callers : GuardDirectReclaim(c)
    \/ \E c \in Callers : AllocateRelock(c)
    \/ \E c \in Callers, page_id \in CallerIds : GuardAccess(c, page_id)
    \/ BgEnter
    \/ BgSpuriousWake
    \/ GuardScanBegin
    \/ BgProcess
    \/ BgFinish
    \/ BgRelock
    \/ BgFold

SpecGuard == InitGuard /\ [][NextGuard]_vars

\* C33: when no two resident ids alias, a frame of the oldest generation
\* that on_page_accessed was called for since the previous scan_and_reclaim
\* returned is not evicted by the next scan_and_reclaim call: examined, it
\* is promoted (with N = 1 it stays where it is); not examined, it is left
\* as it was
C33_AccessProtects ==
    [][/\ \A pages_to_scan \in Budgets :
            (EngineScan(pages_to_scan) /\ NoAliasing(mglru)) =>
                \A f \in accessed \cap InOldest(mglru) :
                    /\ f \notin Range(result'.evicted_pages)
                    /\ f \in Resident(mglru')
                    /\ f \in Range(ScanExamined) =>
                          /\ result'.promoted_pages_count >= 1
                          /\ \E e \in ScanProcessed :
                                /\ f \in Resident(e)
                                /\ e.page_table[f].generation_index =
                                      IF OldestIdx(mglru) = 0 THEN 0 ELSE OldestIdx(mglru) - 1
                                /\ f \in IdsIn(e, e.page_table[f].generation_index)
                    /\ f \notin Range(ScanExamined) =>
                          mglru'.page_table[f] = mglru.page_table[f]
       /\ \A c \in Callers :
            (GuardDirectReclaim(c) /\ NoAliasing(mglru)) =>
                \A f \in drive.population :
                    f \notin Range(ScanEvicted) /\ f \in Resident(mglru')
       /\ (capacity # 0 /\ BgProcess /\ NoAliasing(mglru)) =>
                \A f \in drive.guarded :
                    f \in Range(kswapd'.result.evicted_pages)
                        => f \in Range(kswapd.result.evicted_pages)]_vars

(***************************************************************************)
(* Claims about what a scan leaves behind                                  *)
(***************************************************************************)

\* the frames the call of this step counts as promoted: the examined ones
\* whose tracker bit was set at their turn
ScanPromoted ==
    {ScanExamined[k] : k \in {j \in 1..Len(ScanExamined) :
        TrackerCheck(EngineBefore(j).generations[OldestIdx(mglru)].bitset, ScanExamined[j])}}

\* C35: with N >= 2, when a scan_and_reclaim call returns, every frame it
\* counted as promoted resides in generation N-2, in the metadata table and
\* in that generation's sequence
C35_PromotedOneStepYounger ==
    [][\A pages_to_scan \in Budgets :
          (EngineScan(pages_to_scan) /\ mglru.max_generations >= 2) =>
              /\ result'.promoted_pages_count > 0 => ScanPromoted # {}
              /\ \A page_id \in ScanPromoted :
                    /\ page_id \in Resident(mglru')
                    /\ mglru'.page_table[page_id].generation_index = OldestIdx(mglru) - 1
                    /\ page_id \in IdsIn(mglru', OldestIdx(mglru) - 1)]_vars

(***************************************************************************)
(* SpecArrival: an MGLRU driven directly with on_page_added and            *)
(* scan_and_reclaim only, each id added once; drive keeps the ids in the   *)
(* order they were added and the ids in the order they were evicted.       *)
(***************************************************************************)
NoArrival == [phase |-> "arrival", calls |-> 0, budget |-> 0, population |-> {},
              evicted_log |-> <<>>, arrivals |-> <<>>]

InitArrival ==
    /\ NoManager
    /\ \E n \in 1..MaxGenerations : mglru = NewMGLRU(n)
    /\ result = EmptyResult
    /\ scan_in = NoScan
    /\ accessed = {}
    /\ drive = NoArrival

ArrivalAdd(page_id) ==
    /\ page_id \notin Range(drive.arrivals)
    /\ EngineAdd(page_id)
    /\ drive' = [drive EXCEPT !.arrivals = Append(@, page_id)]
    /\ UNCHANGED mvars

ArrivalScan(pages_to_scan) ==
    /\ EngineScan(pages_to_scan)
    /\ drive' = [drive EXCEPT !.evicted_log = @ \o result'.evicted_pages]
    /\ UNCHANGED mvars

NextArrival ==
    \/ \E page_id \in EnginePageIds : ArrivalAdd(page_id)
    \/ \E pages_to_scan \in Budgets : ArrivalScan(pages_to_scan)

SpecArrival == InitArrival /\ [][NextArrival]_vars

\* C36: frames that are never accessed are evicted in the order they were
\* added: the ids evicted so far, in the order of their eviction, are the
\* ids added first, in the order they were added
C36_ColdEvictedInArrivalOrder ==
    drive.evicted_log = SubSeq(drive.arrivals, 1, Len(drive.evicted_log))

(***************************************************************************)
(* SpecForget: an MGLRU driven directly; drive.population holds the        *)
(* resident frames on_page_accessed was called for while they were in the  *)
(* oldest generation, since the last age_generations; drive.empties counts *)
(* the scan_and_reclaim calls in a row that were made with a frame         *)
(* resident and returned scanned_pages_count = 0.                          *)
(***************************************************************************)
NoForget == [phase |-> "forget", calls |-> 0, budget |-> 0, population |-> {},
             evicted_log |-> <<>>, empties |-> 0]

InitForget ==
    /\ NoManager
    /\ \E n \in 1..MaxGenerations : mglru = NewMGLRU(n)
    /\ result = EmptyResult
    /\ scan_in = NoScan
    /\ accessed = {}
    /\ drive = NoForget

\* the call of this step ran age_generations: at once, or as its refill
ScanAged ==
    \/ ListEmpty(mglru, OldestIdx(mglru))
    \/ \E e \in ScanProcessed :
          /\ Remaining(e) < ScanBudget \div 4
          /\ mglru' = Settle(mglru, AgeGenerations(e))

ForgetAdd(page_id) ==
    /\ EngineAdd(page_id)
    /\ drive' = [drive EXCEPT !.population = @ \ {page_id}]
    /\ UNCHANGED mvars

ForgetAccess(page_id) ==
    /\ EngineAccess(page_id)
    /\ drive' = [drive EXCEPT !.population = @ \cup ({page_id} \cap InOldest(mglru))]
    /\ UNCHANGED mvars

ForgetScan(pages_to_scan) ==
    /\ drive.empties < MaxEmptyScans
    /\ EngineScan(pages_to_scan)
    /\ drive' = [drive EXCEPT
                    !.population = IF ScanAged THEN {} ELSE @,
                    !.empties = IF Resident(mglru) # {} /\ result'.scanned_pages_count = 0
                                THEN @ + 1 ELSE 0]
    /\ UNCHANGED mvars

NextForget ==
    \/ \E page_id \in EnginePageIds : ForgetAdd(page_id)
    \/ \E page_id \in EnginePageIds : ForgetAccess(page_id)
    \/ \E pages_to_scan \in Budgets : ForgetScan(pages_to_scan)

SpecForget == InitForget /\ [][NextForget]_vars

(***************************************************************************)
(* SpecDirect: a MemoryManager whose callers run while the background      *)
(* thread is never scheduled, so that every reclaim pass is a              *)
(* direct_reclaim.  drive keeps what the callers did: population as in     *)
(* SpecForget, touched the resident frames access_page was called          *)
(* for since they were handed out, cold whether the allocate_page call     *)
(* under way found a frame resident and none of them touched, calls the    *)
(* number of allocate_page calls in a row that found it so and returned    *)
(* nothing, and empties as in SpecForget.                                  *)
(***************************************************************************)
MaxFailures == 4

NoDirect == [phase |-> "direct", calls |-> 0, budget |-> 0, population |-> {},
             evicted_log |-> <<>>, empties |-> 0, touched |-> {}, cold |-> FALSE]

InitDirect ==
    /\ \E n \in 1..MaxGenerations : mglru = NewMGLRU(n)
    /\ result = EmptyResult
    /\ scan_in = NoScan
    /\ accessed = {}
    /\ drive = NoDirect
    /\ capacity = Capacity
    /\ free_list = [i \in 1..Capacity |-> i - 1]
    /\ mtx = "none"
    /\ stop_thread = FALSE
    /\ pc = [c \in Callers |-> "idle"]
    /\ ret = [c \in Callers |-> NoReturn]
    /\ kswapd = KswapdAt("lock")
    /\ joined = FALSE
    /\ in_use = {}

\* what drive forgets about a frame that is handed out
HandedOut(d, page_id) ==
    [d EXCEPT !.calls = 0,
              !.population = @ \ {page_id},
              !.touched = @ \ {page_id}]

\* allocate_page finding a free frame at once, as AllocateFast
DirectFast(c) ==
    /\ Alive /\ mtx = "none" /\ pc[c] = "idle"
    /\ free_list # <<>>
    /\ AllocateTake(c)
    /\ drive' = HandedOut(drive, Head(free_list))
    /\ UNCHANGED <<result, scan_in, accessed, capacity, mtx, stop_thread, pc, joined>>

\* allocate_page finding the free list empty, as AllocateUnlock
DirectUnlock(c) ==
    /\ Alive /\ mtx = "none" /\ pc[c] = "idle"
    /\ free_list = <<>>
    /\ drive.calls < MaxFailures /\ drive.empties < MaxEmptyScans
    /\ pc' = [pc EXCEPT ![c] = "direct_reclaim"]
    /\ drive' = [drive EXCEPT
                    !.cold = Resident(mglru) # {} /\ drive.touched \cap Resident(mglru) = {}]
    /\ UNCHANGED <<result, scan_in, accessed, capacity, mglru, free_list, mtx, stop_thread,
                   ret, kswapd, joined, in_use>>

\* direct_reclaim(10), as DirectReclaim
DirectScan(c) ==
    \E b \in BuildsOf(mglru) :
        LET e == As(mglru, b)
            out == ScanAndReclaim(e, DirectReclaimBudget)
            processed == ProcessPages([e |-> e, result |-> EmptyResult],
                             CollectPages(e.generations[OldestIdx(e)].pages,
                                          DirectReclaimBudget)).e
            aged == \/ ListEmpty(e, OldestIdx(e))
                    \/ SizeBelowQuarter(ListSize(processed.generations[OldestIdx(e)]),
                                        DirectReclaimBudget)
        IN  /\ ~mglru.aborted /\ mtx = "none" /\ pc[c] = "direct_reclaim"
            /\ SkewOK(out.e)
            /\ mglru' = Settle(mglru, out.e)
            /\ free_list' = AddEvicted(free_list, out.result.evicted_pages)
            /\ in_use' = in_use \ Range(out.result.evicted_pages)
            /\ pc' = [pc EXCEPT ![c] = "relock"]
            /\ drive' = [drive EXCEPT
                            !.population = IF aged THEN {} ELSE @,
                            !.empties = IF out.e.aborted THEN @
                                        ELSE IF /\ Resident(mglru) # {}
                                                /\ out.result.scanned_pages_count = 0
                                        THEN @ + 1 ELSE 0,
                            !.touched = @ \cap Resident(mglru')]
            /\ UNCHANGED <<result, scan_in, accessed, capacity, mtx, stop_thread, ret,
                           kswapd, joined>>

\* allocate_page after direct_reclaim, as AllocateRelock
DirectRelock(c) ==
    /\ ~mglru.aborted /\ mtx = "none" /\ pc[c] = "relock"
    /\ pc' = [pc EXCEPT ![c] = "idle"]
    /\ IF free_list = <<>>
       THEN /\ ret' = [ret EXCEPT ![c] = Returned(None)]
            /\ drive' = [drive EXCEPT !.calls = IF drive.cold THEN @ + 1 ELSE 0]
            /\ UNCHANGED <<mglru, free_list, kswapd, in_use>>
       ELSE /\ AllocateTake(c)
            /\ drive' = HandedOut(drive, Head(free_list))
    /\ UNCHANGED <<result, scan_in, accessed, capacity, mtx, stop_thread, joined>>

\* access_page(page_id), as AccessPage
DirectAccess(c, page_id) ==
    /\ Alive /\ mtx = "none" /\ pc[c] = "idle"
    /\ mglru' = OnPageAccessed(mglru, page_id)
    /\ ret' = [ret EXCEPT ![c] = NoReturn]
    /\ drive' = [drive EXCEPT
                    !.population = @ \cup ({page_id} \cap InOldest(mglru)),
                    !.touched = @ \cup ({page_id} \cap Resident(mglru))]
    /\ UNCHANGED <<result, scan_in, accessed, capacity, free_list, mtx, stop_thread, pc,
                   kswapd, joined, in_use>>

NextDirect ==
    \/ \E c \in Callers : DirectFast(c)
    \/ \E c \in Callers : DirectUnlock(c)
    \/ \E c \in Callers : DirectScan(c)
    \/ \E c \in Callers : DirectRelock(c)
    \/ \E c \in Callers, page_id \in CallerIds : DirectAccess(c, page_id)
    \/ \E c \in Callers, page_id \in CallerIds : FreePage(c, page_id)

SpecDirect == InitDirect /\ [][NextDirect]_vars

\* C34: with N >= 2 and no two resident ids aliasing, a frame examined by a
\* scan_and_reclaim call, for which on_page_accessed was not called while it
\* was in the oldest generation since the last age_generations, finds its
\* tracker bit clear at its turn and is evicted by that call, whatever
\* accesses it had while it was in a younger generation
C34_YoungAccessesForgotten ==
    [][/\ \A pages_to_scan \in Budgets :
          (/\ mglru.max_generations >= 2 /\ NoAliasing(mglru)
           /\ scan_in'.pages_to_scan = pages_to_scan /\ ForgetScan(pages_to_scan)) =>
              \A k \in 1..Len(ScanExamined) :
                  ScanExamined[k] \notin drive.population =>
                      /\ ~TrackerCheck(EngineBefore(k).generations[OldestIdx(mglru)].bitset,
                                       ScanExamined[k])
                      /\ ScanExamined[k] \in Range(result'.evicted_pages)
                      /\ ScanExamined[k] \notin Resident(mglru')
       /\ \A c \in Callers :
          (/\ capacity # 0 /\ mglru.max_generations >= 2 /\ NoAliasing(mglru)
           /\ DirectScan(c)) =>
              \A k \in 1..Len(ScanExamined) :
                  ScanExamined[k] \notin drive.population =>
                      /\ ScanExamined[k] \in Range(ScanEvicted)
                      /\ ScanExamined[k] \notin Resident(mglru')]_vars

\* C37: while a frame is resident, never more than N-1 scan_and_reclaim
\* calls in a row return scanned_pages_count = 0, whatever the budgets and
\* whatever on_page_added and on_page_accessed calls come between them
C37_BoundedEmptyScans ==
    drive.empties <= mglru.max_generations - 1

\* C38: never more than N-1 allocate_page calls in a row find the free list
\* empty and a frame resident, none of the resident frames ever accessed,
\* and return nothing; and no such call is cut short by the program's abort,
\* so that the call after them returns an id
C38_FailureTransient ==
    /\ drive.calls <= mglru.max_generations - 1
    /\ \A c \in Callers :
          (pc[c] \in {"direct_reclaim", "relock"} /\ drive.cold) => ~mglru.aborted

====
